---- MODULE Spec2Model ----
(***************************************************************************)
(* Contract selection and scoring engine of the wheel-system worker        *)
(* (apps/worker/src/build_csp_picks.py, config/wheel_rules.py,             *)
(* utils/symbols.py).                                                      *)
(*                                                                         *)
(* Conventions of the model                                                *)
(*   - money (bid, ask, mark, last, strike, cash) is in cents;             *)
(*   - delta is in hundredths (0.25 is 25);                                *)
(*   - dates are day numbers, so (d - now).days is d - now;                *)
(*   - a Python float that is not a whole number of those units is an      *)
(*     exact rational <<n, d>> with d > 0 (mid, spread_pct, yields and     *)
(*     scores), compared by cross-multiplication;                          *)
(*   - an optional value is None (<<>>) or Some(v) (<<v>>);                *)
(*   - a symbol is a sequence of one-character strings.                    *)
(***************************************************************************)
EXTENDS Integers, Sequences, FiniteSets, TLC

VARIABLES
    sp_bid, sp_ask, sp_res,         \* spread_ok(bid, ask, rules): inputs, result
    cb_options, cb_dte, cb_res,     \* _choose_best_put_in_delta_band: options,
                                    \* expiration - today, result
    sym_in, sym_out,                \* symbol helpers: input symbol, results
    aw_chain, aw_exps, aw_window,   \* attempt_window: chain, expirations, window
    aw_now, aw_res,                 \* reference date, result
    builder, cfg, run_now,          \* pick builder: which one, configuration, today
    cands,                          \* its candidates
    budget, db,                     \* portfolio budget answers, screening_picks
    pc,                             \* where the invocation stands
    scan_i, pick_rows, seen_exposure,
    scan_log, chain_requests,       \* branch taken per item, chain requests made
    eligible_for_selection, sel_pos, selected_indices,
    running_allocated_net, allocatable_cash,
    up_table, up_key, up_keys,      \* upsert_rows: table, key, keys,
    up_rows, up_client, up_pc,      \* rows, client answers, position,
    up_requests,                    \* payloads sent
    rq_script, rq_refresh,          \* SchwabClient._request: responses and
    rq_cached, rq_pc, rq_attempt,   \* refresh answers to come, cached token,
    rq_token, rq_refreshes,         \* position, attempt, token in the header,
    rq_events, rq_result,           \* refreshes made, what happened, outcome
    fmp_method, fmp_script,         \* FMP data method: which, statuses to come,
    fmp_blocked, fmp_res,           \* 402 cache holds the symbol, outcome
    cc_options, cc_price, cc_dte,   \* _choose_best_call_in_delta_band: options,
    cc_allow_itm, cc_res,           \* current price, dte, allow_itm, result
    ea_date, ea_now, ea_res,        \* earnings date, run date, both verdicts
    bg_env, bg_client_ok,           \* _determine_portfolio_budget: env value,
    bg_response, bg_res             \* Schwab credentials, account, result

spreadVars == <<sp_bid, sp_ask, sp_res>>
chooseVars == <<cb_options, cb_dte, cb_res>>
symVars == <<sym_in, sym_out>>
windowVars == <<aw_chain, aw_exps, aw_window, aw_now, aw_res>>
mainVars ==
    <<builder, cfg, run_now, cands, budget, db, pc,
      scan_i, pick_rows, seen_exposure, scan_log, chain_requests,
      eligible_for_selection, sel_pos, selected_indices,
      running_allocated_net, allocatable_cash>>
upsertVars == <<up_table, up_key, up_keys, up_rows, up_client, up_pc, up_requests>>
schwabVars ==
    <<rq_script, rq_refresh, rq_cached, rq_pc, rq_attempt, rq_token,
      rq_refreshes, rq_events, rq_result>>
fmpVars == <<fmp_method, fmp_script, fmp_blocked, fmp_res>>
callVars == <<cc_options, cc_price, cc_dte, cc_allow_itm, cc_res>>
earnVars == <<ea_date, ea_now, ea_res>>
budgetVars == <<bg_env, bg_client_ok, bg_response, bg_res>>
restVars == <<upsertVars, schwabVars, fmpVars, callVars, earnVars, budgetVars>>
vars == <<spreadVars, chooseVars, symVars, windowVars, mainVars, restVars>>

IdleSpread == sp_bid = 0 /\ sp_ask = 0 /\ sp_res = <<>>
IdleChoose == cb_options = <<>> /\ cb_dte = 0 /\ cb_res = <<>>
IdleSym == sym_in = <<>> /\ sym_out = <<>>
IdleWindow ==
    /\ aw_chain = <<>> /\ aw_exps = <<>> /\ aw_window = "" /\ aw_now = 0
    /\ aw_res = <<>>
IdleMain ==
    /\ builder = "" /\ cfg = <<>> /\ run_now = 0 /\ cands = <<>>
    /\ budget = <<>> /\ db = <<>> /\ pc = ""
    /\ scan_i = 0 /\ pick_rows = <<>> /\ seen_exposure = {} /\ scan_log = <<>>
    /\ chain_requests = {} /\ eligible_for_selection = <<>> /\ sel_pos = 0
    /\ selected_indices = {} /\ running_allocated_net = 0 /\ allocatable_cash = 0
IdleUpsert ==
    /\ up_table = "" /\ up_key = <<>> /\ up_keys = <<>> /\ up_rows = <<>>
    /\ up_client = "" /\ up_pc = "" /\ up_requests = <<>>
IdleSchwab ==
    /\ rq_script = <<>> /\ rq_refresh = <<>> /\ rq_cached = FALSE /\ rq_pc = ""
    /\ rq_attempt = 0 /\ rq_token = 0 /\ rq_refreshes = 0 /\ rq_events = <<>>
    /\ rq_result = <<>>
IdleFmp ==
    fmp_method = "" /\ fmp_script = <<>> /\ fmp_blocked = FALSE /\ fmp_res = <<>>
IdleCall ==
    /\ cc_options = <<>> /\ cc_price = 0 /\ cc_dte = 0 /\ cc_allow_itm = FALSE
    /\ cc_res = <<>>
IdleEarn == ea_date = <<>> /\ ea_now = 0 /\ ea_res = <<>>
IdleBudget == bg_env = <<>> /\ bg_client_ok = FALSE /\ bg_response = <<>> /\ bg_res = <<>>
IdleRest == IdleUpsert /\ IdleSchwab /\ IdleFmp /\ IdleCall /\ IdleEarn /\ IdleBudget
IdleCore == IdleSpread /\ IdleChoose /\ IdleSym /\ IdleWindow /\ IdleMain

-----------------------------------------------------------------------------
(* Optional values and exact rationals *)

None == <<>>
Some(v) == <<v>>
IsNone(x) == x = <<>>
Val(x) == x[1]

Abs(x) == IF x < 0 THEN -x ELSE x

RECURSIVE GCD(_, _)
GCD(a, b) == IF b = 0 THEN (IF a = 0 THEN 1 ELSE a) ELSE GCD(b, a % b)

Rat(n, d) ==
    LET s == IF d < 0 THEN -1 ELSE 1
        g == GCD(Abs(n), Abs(d))
    IN  <<(s * n) \div g, (s * d) \div g>>

RInt(n) == <<n, 1>>
RFloor(a) == a[1] \div a[2]
RFrac(a) == a[1] % a[2]

\* Sums and comparisons split off the integer parts first, so that only the
\* fractional parts are cross-multiplied.
RWhole(k, f) == <<k * f[2] + f[1], f[2]>>
RAdd(a, b) ==
    RWhole(RFloor(a) + RFloor(b),
           Rat(RFrac(a) * b[2] + RFrac(b) * a[2], a[2] * b[2]))
RNeg(a) == <<-a[1], a[2]>>
RSub(a, b) == RAdd(a, RNeg(b))
RMul(a, b) == Rat(a[1] * b[1], a[2] * b[2])
RDiv(a, b) == Rat(a[1] * b[2], a[2] * b[1])
RLt(a, b) ==
    \/ RFloor(a) < RFloor(b)
    \/ RFloor(a) = RFloor(b) /\ RFrac(a) * b[2] < RFrac(b) * a[2]
RLe(a, b) == ~RLt(b, a)
RMax(a, b) == IF RLt(a, b) THEN b ELSE a
RMin(a, b) == IF RLt(b, a) THEN b ELSE a

Range(s) == {s[i] : i \in 1..Len(s)}

-----------------------------------------------------------------------------
(* WheelRules: the defaults of config/wheel_rules.py *)

CSP_DELTA_MIN == 20
CSP_DELTA_MAX == 30
DTE_MIN_PRIMARY == 5
DTE_MAX_PRIMARY == 9
DTE_MIN_FALLBACK == 10
DTE_MAX_FALLBACK == 16
EARNINGS_AVOID_DAYS == 10
MAX_SPREAD_PCT == <<15, 2>>
MIN_OPEN_INTEREST == 10
MIN_CREDIT == 25
SPREAD_TIER_1_MAX_MID == 100
SPREAD_TIER_2_MAX_MID == 300
SPREAD_TIER_3_MAX_MID == 800
SPREAD_TIER_1_MAX_ABS == 10
SPREAD_TIER_2_MAX_ABS == 25
SPREAD_TIER_3_MAX_ABS == 50
SPREAD_TIER_4_MAX_ABS == 100

-----------------------------------------------------------------------------
(* wheel_rules.abs_spread_cap_for_mid and wheel_rules.spread_ok *)

abs_spread_cap_for_mid_MutInclusive(mid) ==
    IF RLe(mid, RInt(SPREAD_TIER_1_MAX_MID)) THEN SPREAD_TIER_1_MAX_ABS
    ELSE IF RLe(mid, RInt(SPREAD_TIER_2_MAX_MID)) THEN SPREAD_TIER_2_MAX_ABS
    ELSE IF RLe(mid, RInt(SPREAD_TIER_3_MAX_MID)) THEN SPREAD_TIER_3_MAX_ABS
    ELSE SPREAD_TIER_4_MAX_ABS

abs_spread_cap_for_mid(mid) ==
    IF RLt(mid, RInt(SPREAD_TIER_1_MAX_MID)) THEN SPREAD_TIER_1_MAX_ABS
    ELSE IF RLt(mid, RInt(SPREAD_TIER_2_MAX_MID)) THEN SPREAD_TIER_2_MAX_ABS
    ELSE IF RLt(mid, RInt(SPREAD_TIER_3_MAX_MID)) THEN SPREAD_TIER_3_MAX_ABS
    ELSE SPREAD_TIER_4_MAX_ABS

SpreadInvalid ==
    [ok |-> FALSE, mid |-> None, spread_abs |-> None,
     spread_pct |-> None, abs_cap_used |-> None]

\* the result tuple of spread_ok once mid, spread_pct and the cap are known
SpreadDetails(spread_abs, mid, spread_pct, abs_cap) ==
    [ok |-> RLe(spread_pct, MAX_SPREAD_PCT) /\ spread_abs <= abs_cap,
     mid |-> Some(mid), spread_abs |-> Some(spread_abs),
     spread_pct |-> Some(spread_pct), abs_cap_used |-> Some(abs_cap)]

SpreadAtMid(spread_abs, mid) ==
    IF RLe(mid, RInt(0)) THEN SpreadInvalid
    ELSE SpreadDetails(spread_abs, mid,
                       RMul(RDiv(RInt(spread_abs), mid), RInt(100)),
                       abs_spread_cap_for_mid(mid))

spread_ok(bid, ask) ==
    IF bid <= 0 \/ ask <= 0 THEN SpreadInvalid
    ELSE IF ask < bid THEN SpreadInvalid
    ELSE SpreadAtMid(ask - bid, Rat(bid + ask, 2))

-----------------------------------------------------------------------------
(* build_csp_picks: option contracts and their filters *)

MAX_ANNUALIZED_YIELD == 3

\* _safe_float(x, default) on a number or None
_safe_float(x, default) == IF IsNone(x) THEN default ELSE x

\* "_safe_float(o.get(k), 0.0) or 0.0"
FloatOrZero(x) == IF IsNone(x) THEN 0 ELSE Val(x)

\* math.sqrt on the perfect squares the model's open interests give
SqrtExact(n) == CHOOSE r \in 0..n : r * r = n

\* the checks of _check_liquidity that follow the spread computation
LiquidityAfterSpread_MutNoOI(option, sp) ==
    IF ~sp.ok THEN [ok |-> FALSE, details |-> Some(sp)]
    ELSE [ok |-> TRUE, details |-> Some(sp)]

LiquidityAfterSpread(option, sp) ==
    IF ~sp.ok THEN [ok |-> FALSE, details |-> Some(sp)]
    ELSE IF FloatOrZero(option.openInterest) < MIN_OPEN_INTEREST
         THEN [ok |-> FALSE, details |-> Some(sp)]
    ELSE [ok |-> TRUE, details |-> Some(sp)]

\* (is_valid, spread_details); the reason string is for the log only
_check_liquidity(option) ==
    IF FloatOrZero(option.bid) < MIN_CREDIT THEN [ok |-> FALSE, details |-> None]
    ELSE IF FloatOrZero(option.ask) <= 0 THEN [ok |-> FALSE, details |-> None]
    ELSE LiquidityAfterSpread(
            option, spread_ok(FloatOrZero(option.bid), FloatOrZero(option.ask)))

\* The premium estimate of lines 991-998: mark, else mid, else last
MarkOrMid(o) ==
    IF IsNone(o.mark) /\ FloatOrZero(o.bid) # 0 /\ FloatOrZero(o.ask) # 0
    THEN Some(Rat(FloatOrZero(o.bid) + FloatOrZero(o.ask), 2))
    ELSE IF IsNone(o.mark) THEN None ELSE Some(RInt(Val(o.mark)))

MarkOrLast(o, m1) ==
    IF IsNone(m1)
    THEN (IF IsNone(o.last) THEN None ELSE Some(RInt(Val(o.last))))
    ELSE m1

PremiumOf(o) == MarkOrLast(o, MarkOrMid(o))

\* One pass of the loop body of _choose_best_put_in_delta_band over option o:
\*   "skip"   the option is dropped by a continue,
\*   "raise"  the yield computation divides by dte = 0 (ZeroDivisionError),
\*   "keep"   the option is appended to candidates with its computed fields.
\* The stages of the pass are chained so that each value is computed once:
\* liquidity, premium, annualized yield, score.
SkipPut == [kind |-> "skip"]

EvalScored(o, abs_delta, sd, mark, annualized_yield) ==
    IF RLt(RInt(MAX_ANNUALIZED_YIELD), annualized_yield) THEN SkipPut
    ELSE [kind |-> "keep",
          c |-> [o |-> o,
                 _abs_delta |-> abs_delta,
                 _premium |-> Val(mark),
                 _annualized_yield |-> annualized_yield,
                 _mid |-> Val(sd.mid),
                 _spread_abs |-> Val(sd.spread_abs),
                 _spread_pct |-> Val(sd.spread_pct),
                 _contract_score |->
                    RAdd(RSub(RSub(annualized_yield,
                                   RMul(Val(sd.spread_pct), RInt(10))),
                              Rat(5, SqrtExact(FloatOrZero(o.openInterest) + 1))),
                         Rat(abs_delta * 10, 100)),
                 _liquidity_ok |-> TRUE]]

EvalPriced(o, dte, sd, mark) ==
    IF IsNone(mark) \/ RLe(Val(mark), RInt(0)) THEN SkipPut
    ELSE IF IsNone(o.strike) \/ Val(o.strike) <= 0 THEN SkipPut
    ELSE IF dte = 0 THEN [kind |-> "raise"]
    ELSE EvalScored(o, Abs(Val(o.delta)), sd, mark,
                    RMul(RDiv(Val(mark), RInt(Val(o.strike))), Rat(365, dte)))

EvalLiquid(o, dte, liq) ==
    IF ~liq.ok THEN SkipPut
    ELSE IF IsNone(liq.details) \/ IsNone(Val(liq.details).mid) THEN SkipPut
    ELSE EvalPriced(o, dte, Val(liq.details), PremiumOf(o))

EvalPut(o, dte) ==
    IF IsNone(o.delta) THEN SkipPut
    ELSE IF ~(CSP_DELTA_MIN <= Abs(Val(o.delta))
              /\ Abs(Val(o.delta)) <= CSP_DELTA_MAX) THEN SkipPut
    ELSE EvalLiquid(o, dte, _check_liquidity(o))

\* candidates.sort(key=..., reverse=True) is stable: x goes behind every element
\* whose key is at least its own.
RECURSIVE InsertByScoreDesc(_, _)
InsertByScoreDesc(x, sorted) ==
    IF sorted = <<>> THEN <<x>>
    ELSE IF RLe(x._contract_score, Head(sorted)._contract_score)
         THEN <<Head(sorted)>> \o InsertByScoreDesc(x, Tail(sorted))
         ELSE <<x>> \o sorted

RECURSIVE InsertByScoreAsc_Mut(_, _)
InsertByScoreAsc_Mut(x, sorted) ==
    IF sorted = <<>> THEN <<x>>
    ELSE IF RLe(Head(sorted)._contract_score, x._contract_score)
         THEN <<Head(sorted)>> \o InsertByScoreAsc_Mut(x, Tail(sorted))
         ELSE <<x>> \o sorted

SortCandidates_MutAscending(cs) ==
    LET RECURSIVE Go(_, _)
        Go(i, acc) == IF i > Len(cs) THEN acc
                      ELSE Go(i + 1, InsertByScoreAsc_Mut(cs[i], acc))
    IN  Go(1, <<>>)

SortCandidates(cs) ==
    LET RECURSIVE Go(_, _)
        Go(i, acc) == IF i > Len(cs) THEN acc
                      ELSE Go(i + 1, InsertByScoreDesc(cs[i], acc))
    IN  Go(1, <<>>)

\* candidates[0] of the sorted candidates, None when there is none
BestOfCandidates(cs) ==
    IF cs = <<>> THEN [kind |-> "none"]
    ELSE [kind |-> "contract", c |-> Head(SortCandidates(cs))]

KeptContracts(kept) == [i \in 1..Len(kept) |-> kept[i].c]

\* The loop over the options, given each option's pass: an exception ends the
\* call, a kept option is appended to candidates in input order.
ChooseAmong(evals) ==
    IF \E i \in 1..Len(evals) : evals[i].kind = "raise" THEN [kind |-> "raise"]
    ELSE BestOfCandidates(
            KeptContracts(SelectSeq(evals, LAMBDA e : e.kind = "keep")))

\* _choose_best_put_in_delta_band(options, expiration): [kind |-> "none"],
\* [kind |-> "raise"] or [kind |-> "contract", c |-> the winning candidate].
_choose_best_put_in_delta_band(options, dte) ==
    IF options = <<>> THEN [kind |-> "none"]
    ELSE ChooseAmong([i \in 1..Len(options) |-> EvalPut(options[i], dte)])

-----------------------------------------------------------------------------
(* utils/symbols.py and build_csp_picks.normalize_exposure_symbol.          *)
(* A symbol is a sequence of one-character strings.                        *)

LowerLetters == <<"a", "b", "f", "g", "k", "l", "o", "r">>
UpperLetters == <<"A", "B", "F", "G", "K", "L", "O", "R">>

UpperChar(c) ==
    IF \E i \in 1..Len(LowerLetters) : LowerLetters[i] = c
    THEN UpperLetters[CHOOSE i \in 1..Len(LowerLetters) : LowerLetters[i] = c]
    ELSE c

StrUpper(s) == [i \in 1..Len(s) |-> UpperChar(s[i])]

RECURSIVE StrLStrip(_)
StrLStrip(s) == IF s # <<>> /\ Head(s) = " " THEN StrLStrip(Tail(s)) ELSE s

RECURSIVE StrRStrip(_)
StrRStrip(s) ==
    IF s # <<>> /\ s[Len(s)] = " " THEN StrRStrip(SubSeq(s, 1, Len(s) - 1)) ELSE s

StrStrip(s) == StrRStrip(StrLStrip(s))

StrReplace(s, old, new) == [i \in 1..Len(s) |-> IF s[i] = old THEN new ELSE s[i]]

StrContains(s, c) == \E i \in 1..Len(s) : s[i] = c

\* s.split(c)[0]: the text before the first c (all of s when c is absent)
SplitFirst(s, c) ==
    IF StrContains(s, c)
    THEN SubSeq(s, 1, (CHOOSE i \in 1..Len(s) :
                          s[i] = c /\ \A j \in 1..(i - 1) : s[j] # c) - 1)
    ELSE s

_CLASS_SHARE_TICKERS == {<<"B", "R", "K">>, <<"B", "F">>}

normalize_equity_symbol(symbol) ==
    IF symbol = <<>> THEN symbol
    ELSE
    LET n1 == StrReplace(StrUpper(StrStrip(symbol)), "/", ".")
    IN  IF StrContains(n1, "-") /\ SplitFirst(n1, "-") \in _CLASS_SHARE_TICKERS
        THEN StrReplace(n1, "-", ".")
        ELSE n1

to_fmp_symbol(symbol) ==
    IF symbol = <<>> THEN symbol
    ELSE
    LET n1 == normalize_equity_symbol(symbol)
    IN  IF StrContains(n1, ".") /\ SplitFirst(n1, ".") \in _CLASS_SHARE_TICKERS
        THEN StrReplace(n1, ".", "-")
        ELSE n1

to_universe_symbol(symbol) ==
    IF symbol = <<>> THEN symbol
    ELSE
    LET n1 == StrUpper(StrStrip(symbol))
    IN  IF StrContains(n1, "-") /\ SplitFirst(n1, "-") \in _CLASS_SHARE_TICKERS
        THEN StrReplace(n1, "-", ".")
        ELSE n1

normalize_exposure_symbol(symbol) ==
    IF symbol = <<>> THEN symbol
    ELSE
    LET n0 == StrUpper(StrStrip(symbol)) IN
    IF n0 = <<"G", "O", "O", "G">> THEN <<"G", "O", "O", "G", "L">>
    ELSE IF n0 \in {<<"B", "R", "K", ".", "A">>, <<"B", "R", "K", "-", "A">>}
         THEN <<"B", "R", "K", ".", "B">>
    ELSE IF n0 \in {<<"B", "F", ".", "A">>, <<"B", "F", "-", "A">>}
         THEN <<"B", "F", ".", "B">>
    ELSE
    LET n1 == StrReplace(n0, "/", ".")
    IN  IF StrContains(n1, "-") /\ SplitFirst(n1, "-") \in _CLASS_SHARE_TICKERS
        THEN StrReplace(n1, "-", ".")
        ELSE n1

-----------------------------------------------------------------------------
(* Expiration windows: wheel_rules.is_within_dte_window,                    *)
(* find_expiration_in_window and build_csp_picks.attempt_window.            *)
(* A chain's putExpDateMap is a sequence of entries                        *)
(*   [exp |-> date of the key, strikes |-> <<[strike_str, opt], ...>>]      *)
(* in the dictionary's order.                                              *)

is_within_dte_window(expiration_date, now, min_dte, max_dte) ==
    IF expiration_date <= now THEN FALSE
    ELSE LET dte == expiration_date - now IN
         IF dte < min_dte THEN FALSE
         ELSE IF dte > max_dte THEN FALSE
         ELSE TRUE

RECURSIVE InsertAsc(_, _)
InsertAsc(x, sorted) ==
    IF sorted = <<>> THEN <<x>>
    ELSE IF Head(sorted) <= x THEN <<Head(sorted)>> \o InsertAsc(x, Tail(sorted))
    ELSE <<x>> \o sorted

RECURSIVE SortedDates(_)
SortedDates(ds) == IF ds = <<>> THEN <<>> ELSE InsertAsc(Head(ds), SortedDates(Tail(ds)))

FutureExpirations_MutUnsorted(expirations, now) ==
    SelectSeq(expirations, LAMBDA d : d > now)

\* future = sorted([d for d in expirations if d > now])
FutureExpirations(expirations, now) ==
    SortedDates(SelectSeq(expirations, LAMBDA d : d > now))

find_expiration_in_window(expirations, min_dte, max_dte, now) ==
    LET future == FutureExpirations(expirations, now)
        hits == {i \in 1..Len(future) :
                    is_within_dte_window(future[i], now, min_dte, max_dte)}
    IN  IF hits = {} THEN None
        ELSE Some(future[CHOOSE i \in hits : \A j \in hits : i <= j])

RECURSIVE DateSetAsc(_)
DateSetAsc(S) ==
    IF S = {} THEN <<>>
    ELSE <<CHOOSE x \in S : \A y \in S : x <= y>>
            \o DateSetAsc(S \ {CHOOSE x \in S : \A y \in S : x <= y})

\* sorted(list(set(expirations))) over the keys of putExpDateMap
_parse_expirations_from_chain(chain) ==
    DateSetAsc({chain[i].exp : i \in 1..Len(chain)})

\* opt["strike"] = _safe_float(opt.get("strike") or strike_str)
AttachStrike(e) ==
    [e.opt EXCEPT !.strike =
        IF IsNone(e.opt.strike) \/ Val(e.opt.strike) = 0 THEN e.strike_str
        ELSE e.opt.strike]

RECURSIVE ExtractFrom(_, _, _)
ExtractFrom(chain, exp, i) ==
    IF i > Len(chain) THEN <<>>
    ELSE IF chain[i].exp # exp THEN ExtractFrom(chain, exp, i + 1)
    ELSE [k \in 1..Len(chain[i].strikes) |-> AttachStrike(chain[i].strikes[k])]
            \o ExtractFrom(chain, exp, i + 1)

_extract_put_options_for_exp(chain, exp) == ExtractFrom(chain, exp, 1)

\* what one option adds to the counters
OptionCounts(o, spread_good) ==
    [delta_present |-> ~IsNone(o.delta),
     in_delta |-> /\ ~IsNone(o.delta)
                  /\ CSP_DELTA_MIN <= Abs(Val(o.delta))
                  /\ Abs(Val(o.delta)) <= CSP_DELTA_MAX,
     bid_ok |-> FloatOrZero(o.bid) >= MIN_CREDIT,
     spread_ok |-> spread_good,
     oi_ok |-> spread_good /\ FloatOrZero(o.openInterest) >= MIN_OPEN_INTEREST]

CountOption(o) ==
    OptionCounts(o, /\ FloatOrZero(o.bid) >= MIN_CREDIT
                    /\ FloatOrZero(o.ask) > 0
                    /\ spread_ok(FloatOrZero(o.bid), FloatOrZero(o.ask)).ok)

SumCounts(n, f) ==
    [puts_total |-> n,
     delta_present |-> Cardinality({i \in 1..n : f[i].delta_present}),
     in_delta |-> Cardinality({i \in 1..n : f[i].in_delta}),
     bid_ok |-> Cardinality({i \in 1..n : f[i].bid_ok}),
     spread_ok |-> Cardinality({i \in 1..n : f[i].spread_ok}),
     oi_ok |-> Cardinality({i \in 1..n : f[i].oi_ok})]

_count_put_contracts_diagnostics(options) ==
    SumCounts(Len(options), [i \in 1..Len(options) |-> CountOption(options[i])])

_determine_skip_reason(d) ==
    IF d.delta_present = 0 THEN "delta missing from Schwab"
    ELSE IF d.in_delta = 0 THEN "delta out of band"
    ELSE IF d.bid_ok = 0 THEN "bid < min_credit"
    ELSE IF d.spread_ok = 0 THEN "spread failed (pct or abs)"
    ELSE IF d.oi_ok = 0 THEN "oi < min_open_interest"
    ELSE "other"

ZeroDiag(reason) ==
    [puts_total |-> 0, delta_present |-> 0, in_delta |-> 0, bid_ok |-> 0,
     spread_ok |-> 0, oi_ok |-> 0, reason |-> Some(reason)]

WithReason(d, reason) ==
    [puts_total |-> d.puts_total, delta_present |-> d.delta_present,
     in_delta |-> d.in_delta, bid_ok |-> d.bid_ok, spread_ok |-> d.spread_ok,
     oi_ok |-> d.oi_ok, reason |-> reason]

\* attempt_window: [kind |-> "raise"] when the chooser raises, else
\* [kind |-> "ok", best, exp, diag]. today in the chooser is the run's now.
AttemptResult(exp, diag_counts, best) ==
    IF best.kind = "raise" THEN [kind |-> "raise"]
    ELSE IF best.kind = "contract"
    THEN [kind |-> "ok", best |-> Some(best.c), exp |-> exp,
          diag |-> WithReason(diag_counts, None)]
    ELSE [kind |-> "ok", best |-> None, exp |-> exp,
          diag |-> WithReason(diag_counts,
                              Some(_determine_skip_reason(diag_counts)))]

AttemptOnPuts(exp, now, puts) ==
    IF puts = <<>>
    THEN [kind |-> "ok", best |-> None, exp |-> None,
          diag |-> ZeroDiag("no PUTs extracted")]
    ELSE AttemptResult(exp, _count_put_contracts_diagnostics(puts),
                       _choose_best_put_in_delta_band(puts, Val(exp) - now))

AttemptAtExpiration(chain, now, exp) ==
    IF IsNone(exp)
    THEN [kind |-> "ok", best |-> None, exp |-> None,
          diag |-> ZeroDiag("no expiration in window")]
    ELSE AttemptOnPuts(exp, now, _extract_put_options_for_exp(chain, Val(exp)))

attempt_window(min_dte, max_dte, chain, expirations, now) ==
    AttemptAtExpiration(chain, now,
        find_expiration_in_window(expirations, min_dte, max_dte, now))

WindowMin(w) == IF w = "primary" THEN DTE_MIN_PRIMARY ELSE DTE_MIN_FALLBACK
WindowMax(w) == IF w = "primary" THEN DTE_MAX_PRIMARY ELSE DTE_MAX_FALLBACK

-----------------------------------------------------------------------------
(* build_csp_picks.main: the pass over one candidate (lines 1320-1855).    *)
(* A candidate is a screening_candidates row                               *)
(*   [ticker, score, earn_in_days, metrics, chain]                         *)
(* where chain is what md.get_option_chain answers for the ticker:         *)
(* [kind |-> "raise"], [kind |-> "none"] (None or an empty dict) or        *)
(* [kind |-> "chain", puts |-> putExpDateMap]. SCORE_MODE is "balanced".   *)

CSP_TARGET_PICKS == 10
WHEEL_CSP_MAX_CASH_PER_TRADE == 2500000
WHEEL_MIN_TOTAL_SCORE == 0

\* metrics.get("fundamentals_score") or metrics.get("fundamentals_score_total")
FundScoreRaw(metrics) ==
    IF IsNone(metrics.fundamentals_score) \/ Val(metrics.fundamentals_score) = 0
    THEN None ELSE metrics.fundamentals_score

FundamentalsBonus(raw) ==
    IF IsNone(raw) THEN RInt(0)
    ELSE RMul(RMax(RInt(0), RMin(RInt(1), Rat(Val(raw) - 50, 50))), RInt(15))

FundamentalsPenalty(fund_score) ==
    IF fund_score >= 60 THEN 0
    ELSE IF fund_score >= 55 THEN -2
    ELSE IF fund_score >= 45 THEN -6
    ELSE -12

RsiBonus(rsi) ==
    IF IsNone(rsi) THEN 0
    ELSE IF Val(rsi) <= 35 THEN 5
    ELSE IF Val(rsi) < 50 THEN 2
    ELSE IF Val(rsi) <= 65 THEN 0
    ELSE IF Val(rsi) < 75 THEN -2
    ELSE -5

IvBonus(metrics) ==
    IF ~IsNone(metrics.iv_rank) THEN Rat(Val(metrics.iv_rank) * 10, 100)
    ELSE IF ~IsNone(metrics.iv_current) THEN Rat(1, 2)
    ELSE RInt(0)

\* iv_zscore is in hundredths
MrBonus(metrics) ==
    IF /\ ~IsNone(metrics.iv_zscore) /\ Val(metrics.iv_zscore) >= 100
       /\ ~IsNone(metrics.rsi) /\ Val(metrics.rsi) <= 40
    THEN 5 ELSE 0

UnderlyingBonusOf(metrics, raw) ==
    RMax(RInt(-10), RMin(RInt(25),
        RAdd(RAdd(FundamentalsBonus(raw), IvBonus(metrics)),
             RInt(RsiBonus(metrics.rsi) + MrBonus(metrics)
                  + FundamentalsPenalty(IF IsNone(raw) THEN 50 ELSE Val(raw))))))

compute_underlying_bonus(c) == UnderlyingBonusOf(c.metrics, FundScoreRaw(c.metrics))

\* max(0.0, (0.05 - spread_pct) * 100.0), spread_pct being the percentage
LiquidityBonus(spread_pct) ==
    RMax(RInt(0), RMul(RSub(Rat(5, 100), spread_pct), RInt(100)))

\* balanced mode
compute_total_score(contract_score, liquidity_bonus, underlying_bonus) ==
    RAdd(RAdd(contract_score, liquidity_bonus), underlying_bonus)

TotalScoreOf(best, underlying_bonus) ==
    compute_total_score(best._contract_score, LiquidityBonus(best._spread_pct),
                        underlying_bonus)

\* earn_in_days, else metrics.earnings_in_days
LoadEarnings(c) ==
    IF IsNone(c.earn_in_days) THEN c.metrics.earnings_in_days ELSE c.earn_in_days

EarningsBlocked_MutStrict(earnings_in_days) ==
    ~IsNone(earnings_in_days) /\ Val(earnings_in_days) < EARNINGS_AVOID_DAYS

\* earnings_in_days is not None and earnings_in_days <= rules.earnings_avoid_days
EarningsBlocked(earnings_in_days) ==
    ~IsNone(earnings_in_days) /\ Val(earnings_in_days) <= EARNINGS_AVOID_DAYS

should_try_fallback_MutInDeltaOnly(allow_fallback_dte, diag_primary) ==
    allow_fallback_dte /\ diag_primary.in_delta = 0

should_try_fallback(allow_fallback_dte, diag_primary) ==
    /\ allow_fallback_dte
    /\ \/ diag_primary.in_delta = 0
       \/ diag_primary.in_delta > 0 /\ diag_primary.spread_ok = 0

\* the window decision of lines 1389-1546: best, exp, window_used,
\* fallback_attempted, selection_reason
NoWindow(attempted) ==
    [best |-> None, exp |-> None, window_used |-> None,
     fallback_attempted |-> attempted, selection_reason |-> None]

ChosenWindow(res, window, attempted, why) ==
    [best |-> res.best, exp |-> res.exp, window_used |-> Some(window),
     fallback_attempted |-> attempted, selection_reason |-> Some(why)]

CompareWindows_MutTieFallback(primary, fallback, total_score_primary, total_score_fallback) ==
    IF RLe(total_score_primary, total_score_fallback)
    THEN ChosenWindow(fallback, "fallback", TRUE, "fallback_better_score")
    ELSE ChosenWindow(primary, "primary", TRUE, "primary_better_score")

CompareWindows(primary, fallback, total_score_primary, total_score_fallback) ==
    IF RLt(total_score_primary, total_score_fallback)
    THEN ChosenWindow(fallback, "fallback", TRUE, "fallback_better_score")
    ELSE ChosenWindow(primary, "primary", TRUE, "primary_better_score")

ChooseWindow(allow_fallback_dte, underlying_bonus, primary, fallback) ==
    IF ~IsNone(primary.best) /\ allow_fallback_dte
    THEN IF ~IsNone(fallback.best)
         THEN CompareWindows(primary, fallback,
                             TotalScoreOf(Val(primary.best), underlying_bonus),
                             TotalScoreOf(Val(fallback.best), underlying_bonus))
         ELSE ChosenWindow(primary, "primary", TRUE, "primary_only")
    ELSE IF ~IsNone(primary.best)
    THEN ChosenWindow(primary, "primary", FALSE, "primary_only")
    ELSE IF should_try_fallback(allow_fallback_dte, primary.diag)
    THEN IF ~IsNone(fallback.best)
         THEN ChosenWindow(fallback, "fallback", TRUE, "fallback_only")
         ELSE NoWindow(TRUE)
    ELSE NoWindow(FALSE)

\* the pick row of lines 1612-1817, with the fields the selection and the
\* store read; rank is "c.get('rank') or i" for candidates without a rank
PickRow(run_id, c, i, now, earnings_in_days, best, w, total_score) ==
    [run_id |-> run_id,
     ticker |-> c.ticker,
     action |-> "CSP",
     dte |-> Val(w.exp) - now,
     expiration |-> Val(w.exp),
     strike |-> Val(best.o.strike),
     premium |-> best._premium,
     delta |-> Val(best.o.delta),
     bid |-> FloatOrZero(best.o.bid),
     score |-> c.score,
     rank |-> i,
     earn_in_days |-> earnings_in_days,
     used_dte_window |-> Val(w.window_used),
     contract_score |-> best._contract_score,
     total_score |-> total_score,
     required_cash |-> Val(best.o.strike) * 100,
     required_cash_net |-> Val(best.o.strike) * 100 - FloatOrZero(best.o.bid) * 100,
     portfolio |-> None]

\* What the pass over candidate c does: kind is the branch taken,
\* chain_requested whether md.get_option_chain was called, row the appended
\* pick row, exposure_key the key added to seen_exposure.
Outcome(kind, chain_requested) ==
    [kind |-> kind, chain_requested |-> chain_requested,
     row |-> None, exposure_key |-> None]

PickOutcome(row, exposure_key) ==
    [kind |-> "pick", chain_requested |-> TRUE,
     row |-> Some(row), exposure_key |-> Some(exposure_key)]

DuplicateExposure_MutNever(exposure_key, seen) == FALSE

DuplicateExposure(exposure_key, seen) == exposure_key \in seen

ScanChosen(run_id, c, i, now, seen, earnings_in_days, underlying_bonus, w) ==
    IF IsNone(w.best) THEN Outcome("no_contract", TRUE)
    ELSE IF DuplicateExposure(normalize_exposure_symbol(c.ticker), seen)
    THEN Outcome("duplicate_exposure", TRUE)
    ELSE PickOutcome(
            PickRow(run_id, c, i, now, earnings_in_days, Val(w.best), w,
                    TotalScoreOf(Val(w.best), underlying_bonus)),
            normalize_exposure_symbol(c.ticker))

FallbackEvaluated(allow_fallback_dte, primary) ==
    /\ allow_fallback_dte
    /\ ~IsNone(primary.best) \/ should_try_fallback(allow_fallback_dte, primary.diag)

ScanWindows(run_id, c, i, now, seen, allow_fallback_dte, earnings_in_days, underlying_bonus, primary, fallback) ==
    IF primary.kind = "raise" THEN Outcome("exception", TRUE)
    ELSE IF FallbackEvaluated(allow_fallback_dte, primary) /\ fallback.kind = "raise"
    THEN Outcome("exception", TRUE)
    ELSE ScanChosen(run_id, c, i, now, seen, earnings_in_days,
                    underlying_bonus,
                    ChooseWindow(allow_fallback_dte, underlying_bonus, primary, fallback))

ScanExpirations(run_id, c, i, now, seen, allow_fallback_dte, earnings_in_days, expirations) ==
    IF expirations = <<>> THEN Outcome("no_expirations", TRUE)
    ELSE ScanWindows(run_id, c, i, now, seen, allow_fallback_dte,
                     earnings_in_days, compute_underlying_bonus(c),
                     attempt_window(DTE_MIN_PRIMARY, DTE_MAX_PRIMARY,
                                    c.chain.puts, expirations, now),
                     attempt_window(DTE_MIN_FALLBACK, DTE_MAX_FALLBACK,
                                    c.chain.puts, expirations, now))

ScanEarnings(run_id, c, i, now, seen, allow_fallback_dte, earnings_in_days) ==
    IF EarningsBlocked(earnings_in_days) THEN Outcome("earnings_blocked", FALSE)
    ELSE IF c.chain.kind = "raise" THEN Outcome("exception", TRUE)
    ELSE IF c.chain.kind = "none" THEN Outcome("no_chain", TRUE)
    ELSE ScanExpirations(run_id, c, i, now, seen, allow_fallback_dte,
                         earnings_in_days,
                         _parse_expirations_from_chain(c.chain.puts))

ScanOutcome(run_id, c, i, now, seen, allow_fallback_dte) ==
    IF c.ticker = <<>> THEN Outcome("no_ticker", FALSE)
    ELSE ScanEarnings(run_id, c, i, now, seen, allow_fallback_dte,
                      LoadEarnings(c))

-----------------------------------------------------------------------------
(* Specification SpecSpread: spread_ok applied to a bid/ask pair *)

SpreadBids == {-5, 0, 25, 95, 99, 100, 290, 299, 300, 772, 780, 800, 1400}
SpreadDiffs == {-10, 0, 1, 2, 7, 10, 12, 26, 40, 56, 101}

InitSpread ==
    /\ IdleMain
    /\ sp_bid \in SpreadBids
    /\ sp_ask \in {sp_bid + d : d \in SpreadDiffs} \cup {0}
    /\ sp_res = None
    /\ IdleChoose
    /\ IdleSym
    /\ IdleWindow
    /\ IdleRest

CallSpreadOk ==
    /\ sp_res = None
    /\ sp_res' = Some(spread_ok(sp_bid, sp_ask))
    /\ UNCHANGED <<sp_bid, sp_ask>>
    /\ UNCHANGED <<chooseVars, symVars, windowVars, mainVars, restVars>>

NextSpread == CallSpreadOk

SpecSpread == InitSpread /\ [][NextSpread]_vars

\* The tier cap as the claim words it, on mid = (bid + ask) / 2 in half cents.
ClaimedCap(mid2) ==
    IF mid2 < 2 * SPREAD_TIER_1_MAX_MID THEN SPREAD_TIER_1_MAX_ABS
    ELSE IF mid2 < 2 * SPREAD_TIER_2_MAX_MID THEN SPREAD_TIER_2_MAX_ABS
    ELSE IF mid2 < 2 * SPREAD_TIER_3_MAX_MID THEN SPREAD_TIER_3_MAX_ABS
    ELSE SPREAD_TIER_4_MAX_ABS

ClaimedSpreadOk(bid, ask) ==
    /\ bid > 0
    /\ ask > 0
    /\ ask >= bid
    /\ 2 * ((ask - bid) * 200) <= 15 * (bid + ask)
    /\ ask - bid <= ClaimedCap(bid + ask)

\* C7: spread_ok returns ok = True exactly when bid > 0, ask > 0, ask >= bid,
\* the percentage spread is within MAX_SPREAD_PCT and the absolute spread is
\* within the tier cap for mid (a mid on a threshold belongs to the higher
\* tier, the cap never decreases as mid grows); for an invalid bid/ask the
\* result is False with every detail field None.
C7_SpreadOkIff ==
    sp_res # None =>
        LET r == Val(sp_res) IN
        /\ r.ok = ClaimedSpreadOk(sp_bid, sp_ask)
        /\ (sp_bid <= 0 \/ sp_ask <= 0 \/ sp_ask < sp_bid) => r = SpreadInvalid
        /\ (sp_bid > 0 /\ sp_ask >= sp_bid) =>
              /\ r.abs_cap_used = Some(ClaimedCap(sp_bid + sp_ask))
              /\ \A b \in SpreadBids :
                    (b > 0 /\ 2 * b <= sp_bid + sp_ask) =>
                        abs_spread_cap_for_mid(RInt(b)) <= Val(r.abs_cap_used)

\* A quote whose mid is exactly the tier-3 threshold and whose spread lies
\* between the tier-3 and the tier-4 cap has been accepted.
C7_Witness ==
    /\ sp_res # None
    /\ sp_bid + sp_ask = 2 * SPREAD_TIER_3_MAX_MID
    /\ sp_ask - sp_bid > SPREAD_TIER_3_MAX_ABS
    /\ Val(sp_res).ok

-----------------------------------------------------------------------------
(* Specification SpecChoose: _choose_best_put_in_delta_band on a list of    *)
(* option entries of one expiration                                        *)

MaxOptions == 2

Opt(delta, bid, ask, oi, strike, mark) ==
    [delta |-> delta, bid |-> bid, ask |-> ask, openInterest |-> oi,
     strike |-> strike, mark |-> mark, last |-> None]

\* Contracts that pass every filter at dte 5 and 10. GoodA and GoodTie have the
\* same contract_score; GoodInDelta30 has a positive delta and a 4% spread.
GoodA == Opt(Some(-25), Some(100), Some(100), Some(99), Some(5000), None)
GoodTie == Opt(Some(-25), Some(100), Some(100), Some(99), Some(10000), Some(200))
GoodInDelta30 == Opt(Some(30), Some(98), Some(102), Some(99), Some(5000), Some(100))
GoodLowOI == Opt(Some(-20), Some(50), Some(50), Some(15), Some(2500), None)
GoodTier4 == Opt(Some(-25), Some(772), Some(828), Some(99), Some(50000), Some(800))

\* One field of a good contract spoiled, filter by filter.
OptionPool ==
    { GoodA, GoodTie, GoodInDelta30, GoodLowOI, GoodTier4,
      [GoodA EXCEPT !.delta = None],
      [GoodA EXCEPT !.delta = Some(-19)],
      [GoodA EXCEPT !.delta = Some(-31)],
      [GoodA EXCEPT !.bid = Some(24), !.ask = Some(24)],
      [GoodA EXCEPT !.ask = None],
      [GoodA EXCEPT !.ask = Some(110)],
      [GoodA EXCEPT !.ask = Some(90)],
      [GoodTier4 EXCEPT !.bid = Some(740), !.ask = Some(795)],
      [GoodA EXCEPT !.openInterest = Some(8)],
      [GoodA EXCEPT !.openInterest = None],
      [GoodA EXCEPT !.strike = Some(0)],
      [GoodA EXCEPT !.strike = None],
      [GoodA EXCEPT !.mark = Some(0)],
      [GoodA EXCEPT !.strike = Some(2000)] }

\* the sequences over S of length at most n
SeqsUpTo(S, n) == UNION {[1..k -> S] : k \in 0..n}

\* expiration - today for the expirations a DTE window admits
ChooseDtes == {DTE_MIN_PRIMARY, DTE_MIN_FALLBACK}

InitChoose ==
    /\ IdleMain
    /\ IdleSpread
    /\ IdleSym
    /\ IdleWindow
    /\ IdleRest
    /\ cb_options \in SeqsUpTo(OptionPool, MaxOptions)
    /\ cb_dte \in ChooseDtes
    /\ cb_res = None

CallChooseBest ==
    /\ cb_res = None
    /\ cb_res' = Some(_choose_best_put_in_delta_band(cb_options, cb_dte))
    /\ UNCHANGED <<cb_options, cb_dte>>
    /\ UNCHANGED <<spreadVars, symVars, windowVars, mainVars, restVars>>

NextChoose == CallChooseBest

SpecChoose == InitChoose /\ [][NextChoose]_vars

\* The filters as the claim lists them, on the raw option entry.
ClaimedPremium2(o) ==
    IF IsNone(o.mark) THEN FloatOrZero(o.bid) + FloatOrZero(o.ask) ELSE 2 * Val(o.mark)

PassesAllFilters(o, dte) ==
    /\ ~IsNone(o.delta)
    /\ CSP_DELTA_MIN <= Abs(Val(o.delta))
    /\ Abs(Val(o.delta)) <= CSP_DELTA_MAX
    /\ FloatOrZero(o.bid) >= MIN_CREDIT
    /\ FloatOrZero(o.ask) > 0
    /\ ClaimedSpreadOk(FloatOrZero(o.bid), FloatOrZero(o.ask))
    /\ FloatOrZero(o.openInterest) >= MIN_OPEN_INTEREST
    /\ ~IsNone(o.strike)
    /\ Val(o.strike) > 0
    /\ ClaimedPremium2(o) > 0
    /\ ClaimedPremium2(o) * 365 <= MAX_ANNUALIZED_YIELD * 2 * Val(o.strike) * dte

\* C1: a contract returned by _choose_best_put_in_delta_band is one of the
\* input options and passed every filter: delta present and inside the CSP
\* band, bid >= min_credit, ask > 0, spread_ok, open interest >= the minimum,
\* strike > 0, premium > 0 and annualized yield <= MAX_ANNUALIZED_YIELD.
C1_ReturnedPassedFilters ==
    (cb_res # None /\ Val(cb_res).kind = "contract") =>
        LET c == Val(cb_res).c IN
        /\ c.o \in Range(cb_options)
        /\ PassesAllFilters(c.o, cb_dte)
        /\ RLe(c._annualized_yield, RInt(MAX_ANNUALIZED_YIELD))
        /\ RLt(RInt(0), c._premium)

\* A contract was returned from a list that also held a rejected option.
C1_Witness ==
    /\ cb_res # None
    /\ Val(cb_res).kind = "contract"
    /\ \E i \in 1..Len(cb_options) : ~PassesAllFilters(cb_options[i], cb_dte)

\* The composite score of a passing option as the code documents it:
\* yield - spread_pct * 10 - 5 / sqrt(oi + 1) + |delta| * 10.
ClaimedScore(o, dte) ==
    LET bid == FloatOrZero(o.bid)
        ask == FloatOrZero(o.ask)
    IN  RAdd(RAdd(Rat(ClaimedPremium2(o) * 365, 2 * Val(o.strike) * dte),
                  Rat(-(2000 * (ask - bid)), bid + ask)),
             RAdd(Rat(-5, SqrtExact(FloatOrZero(o.openInterest) + 1)),
                  Rat(Abs(Val(o.delta)), 10)))

\* C2: the result is None exactly when no option passes all filters; otherwise
\* the returned contract's score is at least that of every passing option,
\* and among the options of that score it is the first of the input list.
C2_NoneIffNonePasses_MaxScore ==
    cb_res # None =>
        LET r == Val(cb_res)
            passing == {i \in 1..Len(cb_options) : PassesAllFilters(cb_options[i], cb_dte)}
        IN  /\ (r.kind = "none") = (passing = {})
            /\ r.kind = "contract" =>
                  \E i \in passing :
                    /\ cb_options[i] = r.c.o
                    /\ r.c._contract_score = ClaimedScore(cb_options[i], cb_dte)
                    /\ \A j \in passing :
                          /\ RLe(ClaimedScore(cb_options[j], cb_dte), r.c._contract_score)
                          /\ (ClaimedScore(cb_options[j], cb_dte) = r.c._contract_score
                                /\ j < i) => cb_options[j] = cb_options[i]

\* Two different passing options with equal scores were offered and the first
\* of them was returned.
C2_Witness ==
    /\ cb_res # None
    /\ Val(cb_res).kind = "contract"
    /\ Len(cb_options) = 2
    /\ cb_options[1] # cb_options[2]
    /\ PassesAllFilters(cb_options[1], cb_dte)
    /\ PassesAllFilters(cb_options[2], cb_dte)
    /\ ClaimedScore(cb_options[1], cb_dte) = ClaimedScore(cb_options[2], cb_dte)
    /\ Val(cb_res).c.o = cb_options[1]

-----------------------------------------------------------------------------
(* Specification SpecSym: the symbol helpers applied to one input symbol    *)

MaxSymLen == 4

SymAlphabet == {"B", "F", "R", "K", "b", "-", ".", "/", " "}

InitSym ==
    /\ IdleMain
    /\ IdleSpread
    /\ IdleChoose
    /\ IdleWindow
    /\ IdleRest
    /\ sym_in \in SeqsUpTo(SymAlphabet, MaxSymLen)
    /\ sym_out = None

CallSymbolHelpers ==
    /\ sym_out = None
    /\ sym_out' = Some([normalized |-> normalize_equity_symbol(sym_in),
                        fmp |-> to_fmp_symbol(sym_in),
                        universe |-> to_universe_symbol(sym_in)])
    /\ UNCHANGED sym_in
    /\ UNCHANGED <<spreadVars, chooseVars, windowVars, mainVars, restVars>>

NextSym == CallSymbolHelpers

SpecSym == InitSym /\ [][NextSym]_vars

\* The ticker base: the text before the first separator of the trimmed,
\* upper-cased symbol.
TickerBase(s) ==
    LET u == StrUpper(StrStrip(s))
        seps == {i \in 1..Len(u) : u[i] \in {"-", ".", "/"}}
    IN  IF seps = {} THEN u
        ELSE SubSeq(u, 1, (CHOOSE i \in seps : \A j \in seps : i <= j) - 1)

\* C10: each helper is idempotent, to_universe_symbol(to_fmp_symbol(s)) is
\* normalize_equity_symbol(s), and a symbol (without "/") whose ticker is not
\* BRK or BF comes back trimmed and upper-cased with its separators unchanged.
C10_SymbolHelpersConsistent ==
    sym_out # None =>
        LET r == Val(sym_out) IN
        /\ normalize_equity_symbol(r.normalized) = r.normalized
        /\ to_fmp_symbol(r.fmp) = r.fmp
        /\ to_universe_symbol(r.universe) = r.universe
        /\ to_universe_symbol(r.fmp) = r.normalized
        /\ (TickerBase(sym_in) \notin _CLASS_SHARE_TICKERS /\ ~StrContains(sym_in, "/")) =>
              /\ r.normalized = StrUpper(StrStrip(sym_in))
              /\ r.fmp = StrUpper(StrStrip(sym_in))
              /\ r.universe = StrUpper(StrStrip(sym_in))

-----------------------------------------------------------------------------
(* Specification SpecWindow: attempt_window and find_expiration_in_window  *)
(* on one chain, one list of expirations in any order and one DTE window   *)

MaxExps == 3

\* putExpDateMap entry of one expiration; the strike key is the contract's
\* strike (5000 when the contract itself carries none).
Entry(exp, opts) ==
    [exp |-> exp,
     strikes |-> [k \in 1..Len(opts) |->
        [strike_str |-> IF IsNone(opts[k].strike) \/ Val(opts[k].strike) = 0
                        THEN Some(5000) ELSE opts[k].strike,
         opt |-> opts[k]]]]

ChainPrimaryOnly(now) == <<Entry(now + 5, <<GoodA>>)>>
ChainBoth(now) ==
    <<Entry(now + 5, <<GoodInDelta30>>), Entry(now + 10, <<GoodA, GoodTie>>)>>
ChainFallbackOnly(now) == <<Entry(now + 10, <<GoodA>>)>>
\* the dte-10 contract pays twice the premium of the dte-5 one: equal total_score
ChainBothTie(now) ==
    <<Entry(now + 5, <<GoodA>>),
      Entry(now + 10, <<[GoodA EXCEPT !.bid = Some(200), !.ask = Some(200)]>>)>>
ChainPrimaryLowOI(now) ==
    <<Entry(now + 5, <<[GoodA EXCEPT !.openInterest = Some(8)]>>),
      Entry(now + 10, <<GoodA>>)>>
ChainPrimaryOutOfBand(now) ==
    <<Entry(now + 5, <<[GoodA EXCEPT !.delta = Some(-31)]>>),
      Entry(now + 10, <<GoodA>>)>>
ChainPrimaryWideSpread(now) ==
    <<Entry(now + 5, <<[GoodA EXCEPT !.ask = Some(110)]>>),
      Entry(now + 10, <<GoodTie>>)>>
ChainPrimaryHighYield(now) ==
    <<Entry(now + 5, <<[GoodA EXCEPT !.strike = Some(2000)]>>),
      Entry(now + 10, <<[GoodA EXCEPT !.strike = Some(2000)]>>)>>
ChainFallbackLate(now) ==
    <<Entry(now + 10, <<[GoodA EXCEPT !.delta = None]>>),
      Entry(now + 16, <<GoodA>>)>>
ChainNoPuts(now) == <<Entry(now + 5, <<>>), Entry(now + 9, <<GoodA>>)>>
ChainEmpty(now) == <<>>

ChainPool(now) ==
    { ChainPrimaryOnly(now), ChainBoth(now), ChainFallbackOnly(now),
      ChainPrimaryLowOI(now), ChainPrimaryOutOfBand(now),
      ChainPrimaryWideSpread(now), ChainPrimaryHighYield(now),
      ChainFallbackLate(now), ChainNoPuts(now), ChainEmpty(now) }

NowDates == {100}
ExpirationOffsets == {0, 4, 5, 9, 10, 16, 17}

InitWindow ==
    /\ IdleMain
    /\ IdleSpread
    /\ IdleChoose
    /\ IdleSym
    /\ IdleRest
    /\ aw_now \in NowDates
    /\ aw_chain \in ChainPool(aw_now)
    /\ aw_exps \in SeqsUpTo({aw_now + k : k \in ExpirationOffsets}, MaxExps)
    /\ aw_window \in {"primary", "fallback"}
    /\ aw_res = None

CallAttemptWindow ==
    /\ aw_res = None
    /\ aw_res' = Some(
          [found |-> find_expiration_in_window(
                        aw_exps, WindowMin(aw_window), WindowMax(aw_window), aw_now),
           win |-> attempt_window(
                        WindowMin(aw_window), WindowMax(aw_window),
                        aw_chain, aw_exps, aw_now)])
    /\ UNCHANGED <<aw_chain, aw_exps, aw_window, aw_now>>
    /\ UNCHANGED <<spreadVars, chooseVars, symVars, mainVars, restVars>>

NextWindow == CallAttemptWindow

SpecWindow == InitWindow /\ [][NextWindow]_vars

ClaimedInWindow ==
    {d \in Range(aw_exps) :
        /\ d > aw_now
        /\ WindowMin(aw_window) <= d - aw_now
        /\ d - aw_now <= WindowMax(aw_window)}

ClaimedEarliest ==
    IF ClaimedInWindow = {} THEN None
    ELSE Some(CHOOSE d \in ClaimedInWindow : \A e \in ClaimedInWindow : d <= e)

\* C8: find_expiration_in_window returns the earliest expiration d of the
\* list with d > now and min_dte <= (d - now).days <= max_dte, None iff there
\* is none, whatever the order of the list; a contract returned by
\* attempt_window is one of the chain's options of exactly that expiration.
C8_EarliestExpirationInWindow ==
    aw_res # None /\ aw_window # "" =>
        LET r == Val(aw_res) IN
        /\ r.found = ClaimedEarliest
        /\ (r.win.kind = "ok" /\ ~IsNone(r.win.best)) =>
              /\ r.win.exp = ClaimedEarliest
              /\ \E i \in 1..Len(aw_chain) :
                    /\ aw_chain[i].exp = Val(ClaimedEarliest)
                    /\ \E k \in 1..Len(aw_chain[i].strikes) :
                          AttachStrike(aw_chain[i].strikes[k]) = Val(r.win.best).o

\* A contract is returned for the earlier of two in-window expirations that
\* the list gives latest-first.
C8_Witness ==
    /\ aw_res # None /\ aw_window # ""
    /\ Val(aw_res).win.kind = "ok"
    /\ ~IsNone(Val(aw_res).win.best)
    /\ Cardinality(ClaimedInWindow) >= 2
    /\ Len(aw_exps) >= 2
    /\ aw_exps[1] \in ClaimedInWindow
    /\ aw_exps[1] # Val(ClaimedEarliest)
    /\ Val(aw_res).win.exp = ClaimedEarliest

-----------------------------------------------------------------------------
(* Specification SpecMain: one invocation of a pick builder.               *)
(* builder = "csp": build_csp_picks.main from the candidate loop to the    *)
(* delete-then-insert of screening_picks. builder = "cc": the position     *)
(* opening of build_cc_picks.main (lines 362-377), which raises while it   *)
(* logs the rules.                                                         *)

MaxCands == 3

RunId == "R"

NoMetrics ==
    [earnings_in_days |-> None, fundamentals_score |-> None, rsi |-> None,
     iv_rank |-> None, iv_current |-> None, iv_zscore |-> None]
StrongMetrics ==
    [NoMetrics EXCEPT !.fundamentals_score = Some(80), !.rsi = Some(30),
                      !.iv_rank = Some(50), !.iv_zscore = Some(150)]
WeakMetrics ==
    [NoMetrics EXCEPT !.fundamentals_score = Some(40), !.rsi = Some(80),
                      !.iv_current = Some(30)]

Cand(ticker, score, earn_in_days, metrics, chain) ==
    [ticker |-> ticker, score |-> score, earn_in_days |-> earn_in_days,
     metrics |-> metrics, chain |-> chain]

Chain(puts) == [kind |-> "chain", puts |-> puts]
ChainRaises == [kind |-> "raise", puts |-> <<>>]
ChainMissing == [kind |-> "none", puts |-> <<>>]

\* a tight contract whose assignment value is above the per-trade cap
GoodLarge == Opt(Some(-25), Some(800), Some(800), Some(99), Some(50000), None)

CandidatePool(now) ==
    { Cand(<<"G", "O", "O", "G">>, 95, None, StrongMetrics,
           Chain(ChainPrimaryOnly(now))),
      Cand(<<"G", "O", "O", "G", "L">>, 90, Some(11), NoMetrics,
           Chain(ChainFallbackOnly(now))),
      Cand(<<"B", "R", "K", ".", "A">>, 85, None,
           [NoMetrics EXCEPT !.earnings_in_days = Some(30)],
           Chain(ChainBoth(now))),
      Cand(<<"b", "r", "k", "-", "b">>, 85, None, WeakMetrics,
           Chain(ChainPrimaryOutOfBand(now))),
      Cand(<<"F">>, 80, Some(10), StrongMetrics, Chain(ChainPrimaryOnly(now))),
      Cand(<<"K">>, 75, None, [NoMetrics EXCEPT !.earnings_in_days = Some(-1)],
           Chain(ChainBoth(now))),
      Cand(<<"B">>, 70, None, NoMetrics, Chain(ChainPrimaryLowOI(now))),
      Cand(<<"R">>, 65, None, NoMetrics, ChainRaises),
      Cand(<<>>, 60, None, NoMetrics, Chain(ChainPrimaryOnly(now))),
      Cand(<<"L">>, 55, None, StrongMetrics,
           Chain(<<Entry(now + 5, <<GoodLarge>>)>>)),
      Cand(<<"B", "F", ".", "B">>, 50, None, NoMetrics,
           Chain(ChainFallbackLate(now))),
      Cand(<<"K", "R">>, 45, None, NoMetrics, Chain(ChainPrimaryWideSpread(now))),
      Cand(<<"O">>, 40, None, NoMetrics, ChainMissing),
      Cand(<<"A">>, 35, None, NoMetrics, Chain(ChainPrimaryHighYield(now))),
      Cand(<<"G">>, 30, Some(40), NoMetrics, Chain(ChainEmpty(now))),
      Cand(<<"T">>, 25, None, NoMetrics, Chain(ChainBothTie(now))) }

\* .order("score", desc=True)
OrderedByScore(cs) ==
    \A j \in 1..Len(cs), k \in 1..Len(cs) : j < k => cs[j].score >= cs[k].score

\* ALLOW_FALLBACK_DTE, WHEEL_CSP_MIN_CASH_BUFFER_PCT (in percent),
\* WHEEL_CSP_MAX_TRADES and WHEEL_ALLOW_NEGATIVE_SELECTION as the environment
\* sets them; the first is the default
DefaultConfig ==
    [allow_fallback_dte |-> TRUE, cash_buffer_pct |-> 10, max_trades |-> 4,
     allow_negative_selection |-> FALSE]
Configs ==
    { DefaultConfig,
      [DefaultConfig EXCEPT !.allow_fallback_dte = FALSE],
      [DefaultConfig EXCEPT !.cash_buffer_pct = 150],
      [DefaultConfig EXCEPT !.max_trades = 1],
      [DefaultConfig EXCEPT !.max_trades = 0],
      [DefaultConfig EXCEPT !.max_trades = -1],
      [DefaultConfig EXCEPT !.allow_negative_selection = TRUE] }

\* what _determine_portfolio_budget and _fetch_cash_equivalents_value answer
Budgets ==
    { [portfolio_budget_cash |-> 5000000, from_schwab |-> FALSE,
       cash_equiv_value |-> 0],
      [portfolio_budget_cash |-> 500000, from_schwab |-> TRUE,
       cash_equiv_value |-> 500000] }

\* a row that an earlier invocation for RunId stored: the pick of the GOOG
\* candidate, selected first
StaleRow(now) ==
    [PickRow(RunId,
             Cand(<<"G", "O", "O", "G">>, 95, None, StrongMetrics,
                  Chain(ChainPrimaryOnly(now))),
             1, now, None,
             _choose_best_put_in_delta_band(<<GoodA>>, 5).c,
             [exp |-> Some(now + 5), window_used |-> Some("primary")],
             Rat(1623, 50))
     EXCEPT !.portfolio = Some([selected |-> TRUE, selection_rank |-> Some(1),
                                running_allocated_net |-> Some(490000)])]

OtherRunRow(now) == [StaleRow(now) EXCEPT !.run_id = "Q"]

DbStates(now) == { <<OtherRunRow(now)>>, <<OtherRunRow(now), StaleRow(now)>> }

InitCommon ==
    /\ IdleSpread
    /\ IdleChoose
    /\ IdleSym
    /\ IdleWindow
    /\ IdleRest
    /\ run_now \in NowDates
    /\ scan_i = 1
    /\ pick_rows = <<>>
    /\ seen_exposure = {}
    /\ scan_log = <<>>
    /\ chain_requests = {}
    /\ eligible_for_selection = <<>>
    /\ sel_pos = 0
    /\ selected_indices = {}
    /\ running_allocated_net = 0
    /\ allocatable_cash = 0

InitCsp ==
    /\ builder = "csp"
    /\ pc = "scan"
    /\ cfg \in Configs
    /\ budget \in Budgets
    /\ db \in DbStates(run_now)
    /\ cands \in {cs \in SeqsUpTo(CandidatePool(run_now), MaxCands) : OrderedByScore(cs)}

InitCc ==
    /\ builder = "cc"
    /\ pc = "cc_start"
    /\ cfg = DefaultConfig
    /\ budget \in {b \in Budgets : ~b.from_schwab}
    /\ db = <<OtherRunRow(run_now)>>
    /\ cands = <<>>

InitMain == InitCommon /\ (InitCsp \/ InitCc)

otherVars == <<spreadVars, chooseVars, symVars, windowVars, restVars>>
inputVars == <<builder, cfg, run_now, cands, budget>>
scanVars == <<scan_i, pick_rows, seen_exposure, scan_log, chain_requests>>
selectVars ==
    <<eligible_for_selection, sel_pos, selected_indices, running_allocated_net,
      allocatable_cash>>

\* "if not cands: raise RuntimeError"
NoCandidates ==
    /\ pc = "scan" /\ cands = <<>>
    /\ pc' = "raised"
    /\ UNCHANGED <<otherVars, inputVars, scanVars, selectVars, db>>

LoopOver == scan_i > Len(cands) \/ Len(pick_rows) >= CSP_TARGET_PICKS

ApplyOutcome(out) ==
    /\ pick_rows' = IF out.kind = "pick" THEN Append(pick_rows, Val(out.row))
                    ELSE pick_rows
    /\ seen_exposure' = IF out.kind = "pick"
                        THEN seen_exposure \cup {Val(out.exposure_key)}
                        ELSE seen_exposure
    /\ chain_requests' = IF out.chain_requested THEN chain_requests \cup {scan_i}
                         ELSE chain_requests
    /\ scan_log' = Append(scan_log, out.kind)
    /\ scan_i' = scan_i + 1

\* one iteration of "for i, c in enumerate(cands, start=1)"
ScanCandidate ==
    /\ pc = "scan" /\ cands # <<>> /\ ~LoopOver
    /\ ApplyOutcome(ScanOutcome(RunId, cands[scan_i], scan_i, run_now,
                                seen_exposure, cfg.allow_fallback_dte))
    /\ UNCHANGED <<otherVars, inputVars, selectVars, db, pc>>

\* "if not pick_rows: ... return"
ReturnNoPicks ==
    /\ pc = "scan" /\ cands # <<>> /\ LoopOver
    /\ pick_rows = <<>>
    /\ pc' = "returned"
    /\ UNCHANGED <<otherVars, inputVars, scanVars, selectVars, db>>

RECURSIVE InsertByTotalDesc(_, _, _)
InsertByTotalDesc(idx, sorted, rows) ==
    IF sorted = <<>> THEN <<idx>>
    ELSE IF RLe(rows[idx].total_score, rows[Head(sorted)].total_score)
         THEN <<Head(sorted)>> \o InsertByTotalDesc(idx, Tail(sorted), rows)
         ELSE <<idx>> \o sorted

RECURSIVE SortedByTotal(_, _)
SortedByTotal(n, rows) ==
    IF n = 0 THEN <<>>
    ELSE InsertByTotalDesc(n, SortedByTotal(n - 1, rows), rows)

EligibleForSelection_MutNoFloor(rows, allow_negative_selection) ==
    SortedByTotal(Len(rows), rows)

\* picks_with_scores sorted by total_score descending; without
\* WHEEL_ALLOW_NEGATIVE_SELECTION only those at or above the quality floor
EligibleForSelection(rows, allow_negative_selection) ==
    IF allow_negative_selection THEN SortedByTotal(Len(rows), rows)
    ELSE SelectSeq(SortedByTotal(Len(rows), rows),
                   LAMBDA idx : RLe(RInt(WHEEL_MIN_TOTAL_SCORE), rows[idx].total_score))

EffectiveBudgetCash(b) ==
    b.portfolio_budget_cash + (IF b.from_schwab THEN b.cash_equiv_value ELSE 0)

AllocatableCash(effective_budget_cash, cash_buffer_pct) ==
    (effective_budget_cash * (100 - cash_buffer_pct)) \div 100

\* lines 1935-1986: the budget and the order of consideration
BeginSelection ==
    /\ pc = "scan" /\ cands # <<>> /\ LoopOver
    /\ pick_rows # <<>>
    /\ allocatable_cash' = AllocatableCash(EffectiveBudgetCash(budget), cfg.cash_buffer_pct)
    /\ eligible_for_selection' = EligibleForSelection(pick_rows, cfg.allow_negative_selection)
    /\ sel_pos' = 1
    /\ selected_indices' = {}
    /\ running_allocated_net' = 0
    /\ pc' = "select"
    /\ UNCHANGED <<otherVars, inputVars, scanVars, db>>

SelectionOver_MutNoMaxTrades == sel_pos > Len(eligible_for_selection)

\* the loop is exhausted, or "len(selected_indices) >= WHEEL_CSP_MAX_TRADES"
SelectionOver ==
    \/ sel_pos > Len(eligible_for_selection)
    \/ Cardinality(selected_indices) >= cfg.max_trades

Fits_MutNoBudget(required_cash_net) ==
    ~(required_cash_net > WHEEL_CSP_MAX_CASH_PER_TRADE)

Fits(required_cash_net) ==
    /\ ~(required_cash_net > WHEEL_CSP_MAX_CASH_PER_TRADE)
    /\ running_allocated_net + required_cash_net <= allocatable_cash

Selected(idx, required_cash_net) ==
    /\ selected_indices' = selected_indices \cup {idx}
    /\ running_allocated_net' = running_allocated_net + required_cash_net
    /\ pick_rows' = [pick_rows EXCEPT ![idx].portfolio =
          Some([selected |-> TRUE,
                selection_rank |-> Some(Cardinality(selected_indices) + 1),
                running_allocated_net |->
                    Some(running_allocated_net + required_cash_net)])]

NotSelected(idx) ==
    /\ pick_rows' = [pick_rows EXCEPT ![idx].portfolio =
          Some([selected |-> FALSE, selection_rank |-> None,
                running_allocated_net |-> None])]
    /\ UNCHANGED <<selected_indices, running_allocated_net>>

ConsiderPick(idx, required_cash_net) ==
    IF Fits(required_cash_net) THEN Selected(idx, required_cash_net)
    ELSE NotSelected(idx)

\* one iteration of "for idx, total_score, required_cash_net in
\* eligible_for_selection"
SelectPick ==
    /\ pc = "select" /\ ~SelectionOver
    /\ ConsiderPick(eligible_for_selection[sel_pos],
                    pick_rows[eligible_for_selection[sel_pos]].required_cash_net)
    /\ sel_pos' = sel_pos + 1
    /\ UNCHANGED <<otherVars, inputVars, db, pc>>
    /\ UNCHANGED <<scan_i, seen_exposure, scan_log, chain_requests>>
    /\ UNCHANGED <<eligible_for_selection, allocatable_cash>>

FinishSelection ==
    /\ pc = "select" /\ SelectionOver
    /\ pc' = "delete"
    /\ UNCHANGED <<otherVars, inputVars, scanVars, selectVars, db>>

\* sb.table("screening_picks").delete().eq("run_id", run_id).eq("action", "CSP")
DeleteRows ==
    /\ pc = "delete"
    /\ db' = SelectSeq(db, LAMBDA r : ~(r.run_id = RunId /\ r.action = "CSP"))
    /\ pc' = "insert"
    /\ UNCHANGED <<otherVars, inputVars, scanVars, selectVars>>

DeleteFails ==
    /\ pc = "delete"
    /\ pc' = "raised"
    /\ UNCHANGED <<otherVars, inputVars, scanVars, selectVars, db>>

\* sb.table("screening_picks").insert(pick_rows)
InsertRows ==
    /\ pc = "insert"
    /\ db' = db \o pick_rows
    /\ pc' = "returned"
    /\ UNCHANGED <<otherVars, inputVars, scanVars, selectVars>>

\* "raise RuntimeError(Supabase error inserting picks)"
InsertFails ==
    /\ pc = "insert"
    /\ pc' = "raised"
    /\ UNCHANGED <<otherVars, inputVars, scanVars, selectVars, db>>

\* build_cc_picks.main, lines 364-377: the opening log line reads
\* rules.max_abs_spread_low_premium, which WheelRules does not define, so the
\* covered-call builder raises AttributeError before it loads any position
CcLogRules ==
    /\ pc = "cc_start"
    /\ pc' = "raised"
    /\ UNCHANGED <<otherVars, inputVars, scanVars, selectVars, db>>

NextMain ==
    \/ NoCandidates
    \/ ScanCandidate
    \/ ReturnNoPicks
    \/ BeginSelection
    \/ SelectPick
    \/ FinishSelection
    \/ DeleteRows
    \/ DeleteFails
    \/ InsertRows
    \/ InsertFails
    \/ CcLogRules

SpecMain == InitMain /\ [][NextMain]_vars

\* the earnings_in_days loaded for item j of the loop
ItemEarnings(j) == LoadEarnings(cands[j])

RowsOfItem(j) == {k \in 1..Len(pick_rows) : pick_rows[k].rank = j}

RECURSIVE SumRequiredCashNet(_)
SumRequiredCashNet(S) ==
    IF S = {} THEN 0
    ELSE LET idx == CHOOSE x \in S : TRUE
         IN  pick_rows[idx].required_cash_net + SumRequiredCashNet(S \ {idx})

BudgetInvariant ==
    /\ running_allocated_net = SumRequiredCashNet(selected_indices)
    /\ running_allocated_net <= allocatable_cash
    /\ 100 * allocatable_cash =
          (budget.portfolio_budget_cash
             + (IF budget.from_schwab THEN budget.cash_equiv_value ELSE 0))
          * (100 - cfg.cash_buffer_pct)

\* C4 as stated: once selection has begun, running_allocated_net is the sum of
\* required_cash_net over the selected picks and is at most allocatable_cash =
\* (portfolio cash + cash equivalents) * (1 - WHEEL_CSP_MIN_CASH_BUFFER_PCT).
C4_BudgetConstrained ==
    builder = "csp" /\ sel_pos >= 1 => BudgetInvariant

\* C4 amended: the same, for a cash buffer of at most 100 percent.
C4_BudgetConstrainedWithinBuffer ==
    builder = "csp" /\ sel_pos >= 1 /\ cfg.cash_buffer_pct <= 100 => BudgetInvariant

\* One pick was selected and a later one was passed over because it did not
\* fit in the remaining allocatable cash.
C4_Witness ==
    /\ builder = "csp" /\ pc = "returned" /\ cfg.cash_buffer_pct <= 100
    /\ Cardinality(selected_indices) = 1
    /\ \E k \in 1..Len(pick_rows) :
          /\ k \notin selected_indices
          /\ pick_rows[k].portfolio # None
          /\ pick_rows[k].required_cash_net <= WHEEL_CSP_MAX_CASH_PER_TRADE
          /\ running_allocated_net + pick_rows[k].required_cash_net > allocatable_cash
    /\ running_allocated_net > 0

\* candidate c gets as far as the duplicate-exposure check with a contract
ReachesExposureCheck(c) ==
    ScanOutcome(RunId, c, 1, run_now, {}, cfg.allow_fallback_dte).kind = "pick"

SameExposure(t1, t2) == normalize_exposure_symbol(t1) = normalize_exposure_symbol(t2)

ReachesWindows(c) ==
    /\ c.ticker # <<>>
    /\ ~(~IsNone(LoadEarnings(c)) /\ Val(LoadEarnings(c)) <= EARNINGS_AVOID_DAYS)
    /\ c.chain.kind = "chain"
    /\ c.chain.puts # <<>>

PrimaryAttempt(c) ==
    attempt_window(DTE_MIN_PRIMARY, DTE_MAX_PRIMARY, c.chain.puts,
                   _parse_expirations_from_chain(c.chain.puts), run_now)

InFallbackWindow(d) ==
    d > run_now /\ DTE_MIN_FALLBACK <= d - run_now /\ d - run_now <= DTE_MAX_FALLBACK

\* expiration d of c's chain has a contract that passes all filters
HasQualifyingPut(c, d) ==
    \E n \in 1..Len(c.chain.puts) :
        /\ c.chain.puts[n].exp = d
        /\ \E k \in 1..Len(c.chain.puts[n].strikes) :
              PassesAllFilters(AttachStrike(c.chain.puts[n].strikes[k]), d - run_now)

FallbackDates(c) ==
    {c.chain.puts[n].exp : n \in 1..Len(c.chain.puts)} \cap
    {d \in run_now + DTE_MIN_FALLBACK .. run_now + DTE_MAX_FALLBACK : InFallbackWindow(d)}

HasFallbackPick(j) ==
    \E k \in RowsOfItem(j) : pick_rows[k].used_dte_window = "fallback"

\* C6 as stated: with ALLOW_FALLBACK_DTE, a candidate whose primary window
\* yields no contract while some fallback-window expiration has a contract
\* passing all filters gets a pick from the fallback window.
C6_FallbackWhenPrimaryFails ==
    builder = "csp" /\ cfg.allow_fallback_dte =>
        \A j \in 1..Len(scan_log) :
            (/\ ReachesWindows(cands[j])
             /\ scan_log[j] # "duplicate_exposure"
             /\ IsNone(PrimaryAttempt(cands[j]).best)
             /\ \E d \in FallbackDates(cands[j]) : HasQualifyingPut(cands[j], d))
            => HasFallbackPick(j)

\* C6 amended: the same when the primary attempt counted no contract inside
\* the delta band or none with an acceptable bid and spread, and the contract
\* passing all filters is at the earliest fallback-window expiration.
C6_FallbackWhenTried ==
    builder = "csp" /\ cfg.allow_fallback_dte =>
        \A j \in 1..Len(scan_log) :
            (/\ ReachesWindows(cands[j])
             /\ scan_log[j] # "duplicate_exposure"
             /\ IsNone(PrimaryAttempt(cands[j]).best)
             /\ \/ PrimaryAttempt(cands[j]).diag.in_delta = 0
                \/ PrimaryAttempt(cands[j]).diag.spread_ok = 0
             /\ \E d \in FallbackDates(cands[j]) :
                   /\ \A e \in FallbackDates(cands[j]) : d <= e
                   /\ HasQualifyingPut(cands[j], d))
            => HasFallbackPick(j)

\* A candidate whose primary expiration has a contract in the delta band but
\* none with an acceptable spread got its pick from the fallback window.
C6_Witness ==
    /\ builder = "csp" /\ cfg.allow_fallback_dte
    /\ \E j \in 1..Len(scan_log) :
          /\ ReachesWindows(cands[j])
          /\ IsNone(PrimaryAttempt(cands[j]).best)
          /\ PrimaryAttempt(cands[j]).diag.in_delta > 0
          /\ PrimaryAttempt(cands[j]).diag.spread_ok = 0
          /\ HasFallbackPick(j)

StoredCspRows == SelectSeq(db, LAMBDA r : r.run_id = RunId /\ r.action = "CSP")

\* C9: whenever main returns normally, the stored CSP rows of the run are
\* exactly the pick rows this invocation generated.
C9_RerunIdempotent ==
    builder = "csp" /\ pc = "returned" => StoredCspRows = pick_rows

FallbackAttempt(c) ==
    attempt_window(DTE_MIN_FALLBACK, DTE_MAX_FALLBACK, c.chain.puts,
                   _parse_expirations_from_chain(c.chain.puts), run_now)

BothWindowsYield(c) ==
    /\ ReachesWindows(c)
    /\ ~IsNone(PrimaryAttempt(c).best)
    /\ ~IsNone(FallbackAttempt(c).best)

PrimaryTotal(c) == TotalScoreOf(Val(PrimaryAttempt(c).best), compute_underlying_bonus(c))
FallbackTotal(c) == TotalScoreOf(Val(FallbackAttempt(c).best), compute_underlying_bonus(c))

\* C16: with ALLOW_FALLBACK_DTE, a pick of a candidate whose primary and
\* fallback windows both yield a contract is from the fallback window exactly
\* when the fallback total_score is strictly greater (a tie keeps primary);
\* without ALLOW_FALLBACK_DTE every pick is from the primary window.
C16_WindowChoice ==
    builder = "csp" =>
        /\ cfg.allow_fallback_dte =>
              \A j \in 1..Len(scan_log) : \A k \in RowsOfItem(j) :
                  BothWindowsYield(cands[j]) =>
                      /\ pick_rows[k].used_dte_window = "fallback"
                            <=> RLt(PrimaryTotal(cands[j]), FallbackTotal(cands[j]))
                      /\ pick_rows[k].used_dte_window \in {"primary", "fallback"}
        /\ ~cfg.allow_fallback_dte =>
              \A k \in 1..Len(pick_rows) : pick_rows[k].used_dte_window = "primary"

\* One run holds a pick kept in the primary window on equal scores and a pick
\* moved to the fallback window by a strictly greater score.
C16_Witness ==
    /\ builder = "csp" /\ cfg.allow_fallback_dte
    /\ \E j \in 1..Len(scan_log) : \E k \in RowsOfItem(j) :
          /\ BothWindowsYield(cands[j])
          /\ PrimaryTotal(cands[j]) = FallbackTotal(cands[j])
          /\ pick_rows[k].used_dte_window = "primary"
    /\ \E j \in 1..Len(scan_log) : \E k \in RowsOfItem(j) :
          /\ BothWindowsYield(cands[j])
          /\ RLt(PrimaryTotal(cands[j]), FallbackTotal(cands[j]))
          /\ pick_rows[k].used_dte_window = "fallback"

\* the pick rows marked selected
MarkedSelected ==
    {k \in 1..Len(pick_rows) :
        pick_rows[k].portfolio # None /\ Val(pick_rows[k].portfolio).selected}

SelectionLimits ==
    /\ Cardinality(selected_indices) <= cfg.max_trades
    /\ Cardinality(MarkedSelected) <= cfg.max_trades
    /\ cfg.max_trades = 0 => selected_indices = {} /\ MarkedSelected = {}
    /\ \A k \in selected_indices \cup MarkedSelected :
          pick_rows[k].required_cash_net <= WHEEL_CSP_MAX_CASH_PER_TRADE

\* C17 as stated: at every point of the selection at most
\* WHEEL_CSP_MAX_TRADES picks are selected (none when it is 0) and no selected
\* pick has required_cash_net > WHEEL_CSP_MAX_CASH_PER_TRADE.
C17_SelectionLimits ==
    builder = "csp" /\ sel_pos >= 1 => SelectionLimits

\* C17 amended: the same for WHEEL_CSP_MAX_TRADES >= 0; below 0 nothing is
\* selected and the per-trade cap holds.
C17_SelectionLimitsNonNegative ==
    builder = "csp" /\ sel_pos >= 1 =>
        /\ cfg.max_trades >= 0 => SelectionLimits
        /\ cfg.max_trades < 0 => selected_indices = {} /\ MarkedSelected = {}

\* With WHEEL_CSP_MAX_TRADES = 1 the selection ended on its first selected
\* pick, after passing over a pick above the per-trade cap and before a pick
\* that would have fitted.
C17_Witness ==
    /\ builder = "csp" /\ pc = "returned" /\ cfg.max_trades = 1
    /\ Cardinality(selected_indices) = 1
    /\ \E k \in 1..Len(pick_rows) :
          /\ pick_rows[k].portfolio # None
          /\ ~Val(pick_rows[k].portfolio).selected
          /\ pick_rows[k].required_cash_net > WHEEL_CSP_MAX_CASH_PER_TRADE
    /\ sel_pos <= Len(eligible_for_selection)
    /\ running_allocated_net
          + pick_rows[eligible_for_selection[sel_pos]].required_cash_net
             <= allocatable_cash

AboveFloor(k) == RLe(RInt(WHEEL_MIN_TOTAL_SCORE), pick_rows[k].total_score)

\* the picks considered so far, in the order of consideration
Considered == SubSeq(eligible_for_selection, 1, sel_pos - 1)

RECURSIVE AllocatedBefore(_)
\* required_cash_net of the picks selected among the first p considered
AllocatedBefore(p) ==
    IF p = 0 THEN 0
    ELSE AllocatedBefore(p - 1)
         + (IF Considered[p] \in MarkedSelected
            THEN pick_rows[Considered[p]].required_cash_net ELSE 0)

SelectedBefore(p) == {q \in 1..p : Considered[q] \in MarkedSelected}

ConsiderationOrder ==
    /\ \A a, b \in 1..Len(eligible_for_selection) :
          a < b => /\ eligible_for_selection[a] # eligible_for_selection[b]
                   /\ RLe(pick_rows[eligible_for_selection[b]].total_score,
                          pick_rows[eligible_for_selection[a]].total_score)
    /\ {eligible_for_selection[a] : a \in 1..Len(eligible_for_selection)} =
          {k \in 1..Len(pick_rows) : cfg.allow_negative_selection \/ AboveFloor(k)}

GreedyChoice ==
    \A p \in 1..Len(Considered) :
        /\ pick_rows[Considered[p]].portfolio # None
        /\ Considered[p] \in MarkedSelected <=>
              /\ pick_rows[Considered[p]].required_cash_net <= WHEEL_CSP_MAX_CASH_PER_TRADE
              /\ AllocatedBefore(p - 1) + pick_rows[Considered[p]].required_cash_net
                    <= allocatable_cash
        /\ Considered[p] \in MarkedSelected =>
              Val(pick_rows[Considered[p]].portfolio).selection_rank
                 = Some(Cardinality(SelectedBefore(p)))

NeverStopsOnMisfit ==
    pc \in {"delete", "insert", "returned"} =>
        \/ sel_pos > Len(eligible_for_selection)
        \/ Cardinality(MarkedSelected) >= cfg.max_trades

\* C18: once the selection has begun, the order of consideration is the picks
\* at or above WHEEL_MIN_TOTAL_SCORE (all picks with
\* WHEEL_ALLOW_NEGATIVE_SELECTION) by descending total_score; the selected
\* picks are among the considered ones; a considered pick is selected exactly
\* when it is within the per-trade cap and fits in what the picks selected
\* before it left of allocatable_cash; the consideration ends only at the end
\* of the order or at WHEEL_CSP_MAX_TRADES; the selected picks are ranked
\* 1..k in the order of consideration.
C18_GreedySelection ==
    builder = "csp" /\ sel_pos >= 1 =>
        /\ ConsiderationOrder
        /\ MarkedSelected = selected_indices
        /\ MarkedSelected \subseteq {Considered[p] : p \in 1..Len(Considered)}
        /\ ~cfg.allow_negative_selection => \A k \in MarkedSelected : AboveFloor(k)
        /\ GreedyChoice
        /\ NeverStopsOnMisfit

\* A run without WHEEL_ALLOW_NEGATIVE_SELECTION ended with a pick below the
\* floor left out, a pick that did not fit passed over, and a lower-scored
\* pick selected after it.
C18_Witness ==
    /\ builder = "csp" /\ pc = "returned" /\ ~cfg.allow_negative_selection
    /\ \E k \in 1..Len(pick_rows) : ~AboveFloor(k) /\ pick_rows[k].portfolio = None
    /\ \E p, q \in 1..Len(Considered) :
          /\ p < q
          /\ Considered[p] \notin MarkedSelected
          /\ Considered[q] \in MarkedSelected

-----------------------------------------------------------------------------
(* upsert_rows (wheel/clients/supabase_client.py)                          *)
(* A column value is a string: "None", a Python str written "s:<text>" or  *)
(* a Python int written "i:<n>", so that 1 and "1" stay different.  A      *)
(* dictionary key is a record: a scalar r.get(key) or a tuple.             *)

MaxRows == 3

NoneV == "None"
IntNames == <<"i:1", "i:2", "i:3", "i:4">>
IntV(n) == IntNames[n]

ScalarKey(v) == [tuple |-> FALSE, parts |-> <<v>>]
TupleKey(vs) == [tuple |-> TRUE, parts |-> vs]

\* lines 31-38: defaults by table when neither key nor keys is given
DefaultKey(table, key, keys) ==
    IF ~(IsNone(keys) /\ IsNone(key)) THEN key
    ELSE IF table = "tickers" THEN Some("ticker")
    ELSE IF table \in {"wheel_candidates", "screening_candidates", "screening_picks"}
    THEN None
    ELSE Some("id")

DefaultKeys(table, key, keys) ==
    IF ~(IsNone(keys) /\ IsNone(key)) THEN keys
    ELSE IF table \in {"wheel_candidates", "screening_candidates", "screening_picks"}
    THEN Some(<<"run_id", "ticker">>)
    ELSE None

\* 'if keys:' is false for None and for an empty list
KeysGiven(keys) == ~IsNone(keys) /\ Val(keys) # <<>>

\* r.get(None) is None
make_k(r, key, keys) ==
    IF KeysGiven(keys)
    THEN TupleKey([n \in 1..Len(Val(keys)) |-> r[Val(keys)[n]]])
    ELSE ScalarKey(IF IsNone(key) THEN NoneV ELSE r[Val(key)])

KeyMissing(k, keys) ==
    \/ k = ScalarKey(NoneV)
    \/ KeysGiven(keys) /\ \E n \in 1..Len(k.parts) : k.parts[n] = NoneV

Placeholder(missing) == TupleKey(<<"s:__missing__", IntV(missing)>>)

\* deduped[k] = r on an insertion-ordered dict held as a sequence of entries
DictSet(d, k, r) ==
    IF \E n \in 1..Len(d) : d[n].k = k
    THEN [n \in 1..Len(d) |-> IF d[n].k = k THEN [k |-> k, r |-> r] ELSE d[n]]
    ELSE Append(d, [k |-> k, r |-> r])

DedupeStep(st, r, k, keys) ==
    IF KeyMissing(k, keys)
    THEN [missing |-> st.missing + 1,
          deduped |-> DictSet(st.deduped, Placeholder(st.missing + 1), r)]
    ELSE [missing |-> st.missing, deduped |-> DictSet(st.deduped, k, r)]

RECURSIVE Dedupe(_, _, _, _)
Dedupe(rows, n, key, keys) ==
    IF n = 0 THEN [missing |-> 0, deduped |-> <<>>]
    ELSE DedupeStep(Dedupe(rows, n - 1, key, keys), rows[n],
                    make_k(rows[n], key, keys), keys)

DictValues(d) == [n \in 1..Len(d) |-> d[n].r]

UpsertPayload(table, rows, key, keys) ==
    DictValues(Dedupe(rows, Len(rows),
                      DefaultKey(table, key, keys),
                      DefaultKeys(table, key, keys)).deduped)

(* Specification SpecUpsert: one call of upsert_rows *)

UpsertRow(run_id, ticker, id) == [run_id |-> run_id, ticker |-> ticker, id |-> id]

UpsertRowPool ==
    {UpsertRow(a, b, "i:1") : a \in {NoneV, "s:R", "s:__missing__"},
                              b \in {NoneV, "s:X", "i:1"}}
    \cup {UpsertRow("s:R", "s:X", NoneV)}

\* <<table, key, keys>> of a call
UpsertCalls ==
    {<<"tickers", None, None>>,
     <<"screening_picks", None, None>>,
     <<"position_snapshots", None, None>>,
     <<"approved_universe", Some("ticker"), None>>,
     <<"screening_candidates", None, Some(<<"run_id", "ticker">>)>>,
     <<"iv_snapshots", None, Some(<<>>)>>,
     <<"rsi_snapshots", Some("id"), Some(<<"ticker">>)>>}

InitUpsert ==
    /\ IdleCore /\ IdleSchwab /\ IdleFmp /\ IdleCall /\ IdleEarn /\ IdleBudget
    /\ \E call \in UpsertCalls :
          /\ up_table = call[1] /\ up_key = call[2] /\ up_keys = call[3]
          /\ up_client \in (IF call[1] = "screening_picks"
                             THEN {"ok", "error", "no_env"} ELSE {"ok"})
    /\ up_rows \in SeqsUpTo(UpsertRowPool, MaxRows)
    /\ up_pc = "call"
    /\ up_requests = <<>>

upsertInputs == <<up_table, up_key, up_keys, up_rows, up_client>>
upsertOthers == <<spreadVars, chooseVars, symVars, windowVars, mainVars, schwabVars, fmpVars, callVars, earnVars, budgetVars>>

\* lines 27-28
UpsertNothing ==
    /\ up_pc = "call" /\ up_rows = <<>>
    /\ up_pc' = "returned"
    /\ UNCHANGED <<upsertInputs, up_requests, upsertOthers>>

\* line 56: get_supabase raises without its environment
UpsertNoClient ==
    /\ up_pc = "call" /\ up_rows # <<>> /\ up_client = "no_env"
    /\ up_pc' = "raised"
    /\ UNCHANGED <<upsertInputs, up_requests, upsertOthers>>

\* lines 40-58
UpsertSend ==
    /\ up_pc = "call" /\ up_rows # <<>> /\ up_client # "no_env"
    /\ up_requests' = Append(up_requests,
                             UpsertPayload(up_table, up_rows, up_key, up_keys))
    /\ up_pc' = IF up_client = "error" THEN "raised" ELSE "returned"
    /\ UNCHANGED <<upsertInputs, upsertOthers>>

NextUpsert == UpsertNothing \/ UpsertNoClient \/ UpsertSend

SpecUpsert == InitUpsert /\ [][NextUpsert]_vars

\* the conflict key of a row as the call's defaults determine it
ConflictKey(r) ==
    make_k(r, DefaultKey(up_table, up_key, up_keys),
           DefaultKeys(up_table, up_key, up_keys))

ConflictKeyMissing(r) ==
    KeyMissing(ConflictKey(r), DefaultKeys(up_table, up_key, up_keys))

Occurrences(seq, r) == Cardinality({n \in 1..Len(seq) : seq[n] = r})

PayloadDeduped(payload) ==
    /\ \A a \in 1..Len(payload), b \in 1..Len(payload) :
          (a # b /\ ~ConflictKeyMissing(payload[a]) /\ ~ConflictKeyMissing(payload[b]))
          => ConflictKey(payload[a]) # ConflictKey(payload[b])
    /\ \A n \in 1..Len(up_rows) :
          IF ConflictKeyMissing(up_rows[n])
          THEN Occurrences(payload, up_rows[n]) = Occurrences(up_rows, up_rows[n])
          ELSE (\A m \in n + 1..Len(up_rows) :
                    ConflictKey(up_rows[m]) # ConflictKey(up_rows[n]))
               => Occurrences(payload, up_rows[n]) = 1
    /\ \A a \in 1..Len(payload) : \E n \in 1..Len(up_rows) : payload[a] = up_rows[n]

\* C11: a request of upsert_rows carries each conflict key at most once, the
\* last input row of a key, and every input row whose key is missing; an
\* empty input makes no request.
C11_PayloadDeduped ==
    up_pc \in {"returned", "raised"} =>
        /\ up_rows = <<>> => up_requests = <<>>
        /\ Len(up_requests) <= 1
        /\ \A q \in 1..Len(up_requests) : PayloadDeduped(up_requests[q])

\* no input row has a key equal to a placeholder ("__missing__", n)
NoPlaceholderKey ==
    \A n \in 1..Len(up_rows), m \in 1..Len(up_rows) :
        ConflictKey(up_rows[n]) # Placeholder(m)

\* C11 outside the placeholder collision
C11_PayloadDedupedNoPlaceholder ==
    (up_pc \in {"returned", "raised"} /\ NoPlaceholderKey) =>
        /\ up_rows = <<>> => up_requests = <<>>
        /\ Len(up_requests) <= 1
        /\ \A q \in 1..Len(up_requests) : PayloadDeduped(up_requests[q])

-----------------------------------------------------------------------------
(* SchwabClient._request (wheel/clients/schwab_client.py)                  *)
(* A response is [status, body]; status 0 stands for requests.request      *)
(* raising (timeout, connection error).  Tokens are numbered: 0 is the     *)
(* cached one, n the one obtained by the n-th refresh.                     *)

MaxAttempts == 3

Resp(status, body) == [status |-> status, body |-> body]

SchwabResponses ==
    {Resp(200, "json"), Resp(200, "empty"), Resp(200, "invalid"),
     Resp(401, "json"), Resp(429, "json"), Resp(500, "json"), Resp(0, "")}

\* lines 114 and 121: 'attempt < 3'
RetryAllowed(attempt) == attempt < 3

\* line 122
Backoff_MutConstant(attempt) == 2

Backoff(attempt) == attempt * 2

\* lines 111 and 135: 'continue' on the last pass of the loop leaves it
AfterContinue(attempt) ==
    IF attempt < MaxAttempts
    THEN [pc |-> "request", attempt |-> attempt + 1, result |-> None]
    ELSE [pc |-> "raised", attempt |-> attempt,
          result |-> Some("Schwab request failed after retries")]

\* lines 131-133
DecodeBody(body) ==
    IF body = "empty" THEN [kind |-> "returned", value |-> "None"]
    ELSE IF body = "json" THEN [kind |-> "returned", value |-> "json"]
    ELSE [kind |-> "raised", value |-> "JSONDecodeError"]

RequestEvent(attempt, token, resp) ==
    [kind |-> "request", attempt |-> attempt, token |-> token, resp |-> resp]
RefreshEvent(ok) == [kind |-> "refresh", ok |-> ok]
SleepEvent(seconds) == [kind |-> "sleep", seconds |-> seconds]

InitSchwab ==
    /\ IdleCore /\ IdleUpsert /\ IdleFmp /\ IdleCall /\ IdleEarn /\ IdleBudget
    /\ rq_script \in [1..MaxAttempts -> SchwabResponses]
    /\ rq_refresh \in [1..MaxAttempts -> BOOLEAN]
    /\ rq_cached \in BOOLEAN
    /\ rq_pc = "token"
    /\ rq_attempt = 0
    /\ rq_token = 0
    /\ rq_refreshes = 0
    /\ rq_events = <<>>
    /\ rq_result = None

schwabInputs == <<rq_script, rq_refresh, rq_cached>>
schwabOthers == <<spreadVars, chooseVars, symVars, windowVars, mainVars, upsertVars, fmpVars, callVars, earnVars, budgetVars>>

\* line 103 with a token in memory that has not expired (lines 97-98)
TokenCached ==
    /\ rq_pc = "token" /\ rq_cached
    /\ rq_pc' = "request" /\ rq_attempt' = 1
    /\ UNCHANGED <<schwabInputs, rq_token, rq_refreshes, rq_events, rq_result, schwabOthers>>

\* line 103 otherwise: refresh_access_token (lines 64-94)
TokenRefreshed ==
    /\ rq_pc = "token" /\ ~rq_cached
    /\ rq_refreshes' = rq_refreshes + 1
    /\ rq_events' = Append(rq_events, RefreshEvent(rq_refresh[rq_refreshes + 1]))
    /\ IF rq_refresh[rq_refreshes + 1]
       THEN /\ rq_token' = rq_refreshes + 1
            /\ rq_pc' = "request" /\ rq_attempt' = 1
            /\ UNCHANGED rq_result
       ELSE /\ rq_pc' = "raised"
            /\ rq_result' = Some("refresh failed")
            /\ UNCHANGED <<rq_token, rq_attempt>>
    /\ UNCHANGED <<schwabInputs, schwabOthers>>

Response == rq_script[rq_attempt]

Requested == Append(rq_events, RequestEvent(rq_attempt, rq_token, Response))

\* line 112 raising: no response
AttemptNoResponse ==
    /\ rq_pc = "request" /\ Response.status = 0
    /\ rq_events' = Requested
    /\ rq_pc' = "raised" /\ rq_result' = Some("request failed")
    /\ UNCHANGED <<schwabInputs, rq_attempt, rq_token, rq_refreshes, schwabOthers>>

\* lines 114-119
AttemptUnauthorized ==
    /\ rq_pc = "request" /\ Response.status = 401 /\ RetryAllowed(rq_attempt)
    /\ rq_refreshes' = rq_refreshes + 1
    /\ rq_events' = Append(Requested, RefreshEvent(rq_refresh[rq_refreshes + 1]))
    /\ IF rq_refresh[rq_refreshes + 1]
       THEN /\ rq_token' = rq_refreshes + 1
            /\ rq_attempt' = AfterContinue(rq_attempt).attempt
            /\ rq_pc' = AfterContinue(rq_attempt).pc
            /\ rq_result' = AfterContinue(rq_attempt).result
       ELSE /\ rq_pc' = "raised"
            /\ rq_result' = Some("refresh failed")
            /\ UNCHANGED <<rq_token, rq_attempt>>
    /\ UNCHANGED <<schwabInputs, schwabOthers>>

\* lines 121-125
AttemptRateLimited ==
    /\ rq_pc = "request" /\ Response.status = 429 /\ RetryAllowed(rq_attempt)
    /\ rq_events' = Append(Requested, SleepEvent(Backoff(rq_attempt)))
    /\ rq_attempt' = AfterContinue(rq_attempt).attempt
    /\ rq_pc' = AfterContinue(rq_attempt).pc
    /\ rq_result' = AfterContinue(rq_attempt).result
    /\ UNCHANGED <<schwabInputs, rq_token, rq_refreshes, schwabOthers>>

\* lines 127-129
AttemptError ==
    /\ rq_pc = "request" /\ Response.status >= 400
    /\ ~(Response.status \in {401, 429} /\ RetryAllowed(rq_attempt))
    /\ rq_events' = Requested
    /\ rq_pc' = "raised" /\ rq_result' = Some("HTTPError")
    /\ UNCHANGED <<schwabInputs, rq_attempt, rq_token, rq_refreshes, schwabOthers>>

\* lines 131-133
AttemptAnswered ==
    /\ rq_pc = "request" /\ Response.status > 0 /\ Response.status < 400
    /\ rq_events' = Requested
    /\ rq_pc' = DecodeBody(Response.body).kind
    /\ rq_result' = Some(DecodeBody(Response.body).value)
    /\ UNCHANGED <<schwabInputs, rq_attempt, rq_token, rq_refreshes, schwabOthers>>

NextSchwab ==
    \/ TokenCached
    \/ TokenRefreshed
    \/ AttemptNoResponse
    \/ AttemptUnauthorized
    \/ AttemptRateLimited
    \/ AttemptError
    \/ AttemptAnswered

\* every step is a bounded computation or a request with a timeout
SpecSchwab == InitSchwab /\ [][NextSchwab]_vars /\ WF_vars(NextSchwab)

\* the responses received so far, in order
RequestEvents == SelectSeq(rq_events, LAMBDA ev : ev.kind = "request")

SchwabDone == rq_pc \in {"returned", "raised"}

\* position in rq_events of the a-th request
RECURSIVE EventIndex(_, _)
EventIndex(a, from) ==
    IF from > Len(rq_events) THEN 0
    ELSE IF rq_events[from].kind = "request" /\ rq_events[from].attempt = a THEN from
    ELSE EventIndex(a, from + 1)

FollowedBy(a, kind) ==
    /\ EventIndex(a, 1) < Len(rq_events)
    /\ rq_events[EventIndex(a, 1) + 1].kind = kind

Retried(a) == Len(RequestEvents) > a

AtMostThreeRequests == Len(RequestEvents) <= 3

\* a 429 on attempt 1 or 2: sleep of 2 * attempt seconds, then a retry
RateLimitHandled(a) ==
    (RequestEvents[a].resp.status = 429 /\ a < 3) =>
        /\ FollowedBy(a, "sleep")
        /\ rq_events[EventIndex(a, 1) + 1].seconds = 2 * a
        /\ Retried(a)

\* any other status >= 400, or a 401/429 on attempt 3: an error, no retry
ErrorRaised(a) ==
    (/\ RequestEvents[a].resp.status >= 400
     /\ ~(RequestEvents[a].resp.status \in {401, 429} /\ a < 3)) =>
        rq_pc = "raised" /\ ~Retried(a)

\* a 401 on attempt 1 or 2: token refresh, then a retry with the new token
UnauthorizedRetried(a) ==
    (RequestEvents[a].resp.status = 401 /\ a < 3) =>
        /\ FollowedBy(a, "refresh")
        /\ Retried(a)
        /\ RequestEvents[a + 1].token > RequestEvents[a].token

\* the first response with status < 400 is returned immediately
AnsweredReturned(a) ==
    (RequestEvents[a].resp.status > 0 /\ RequestEvents[a].resp.status < 400) =>
        rq_pc = "returned" /\ ~Retried(a)

\* C12 as stated, without termination: when the call has ended, it made at
\* most 3 requests and each response was handled as listed.
C12_RequestHandling ==
    SchwabDone =>
        /\ AtMostThreeRequests
        /\ \A a \in 1..Len(RequestEvents) :
              /\ UnauthorizedRetried(a)
              /\ RateLimitHandled(a)
              /\ ErrorRaised(a)
              /\ AnsweredReturned(a)

\* as UnauthorizedRetried, when the refresh succeeds; a failed refresh raises
UnauthorizedRefreshed(a) ==
    (RequestEvents[a].resp.status = 401 /\ a < 3) =>
        /\ FollowedBy(a, "refresh")
        /\ IF rq_events[EventIndex(a, 1) + 1].ok
           THEN /\ Retried(a)
                /\ RequestEvents[a + 1].token > RequestEvents[a].token
           ELSE rq_pc = "raised" /\ ~Retried(a)

\* as AnsweredReturned, when the body is empty or decodes; otherwise the
\* decoding error is raised
AnsweredEnds(a) ==
    (RequestEvents[a].resp.status > 0 /\ RequestEvents[a].resp.status < 400) =>
        /\ ~Retried(a)
        /\ rq_pc = (IF RequestEvents[a].resp.body = "invalid" THEN "raised" ELSE "returned")

RequestHandlingAmended ==
    SchwabDone =>
        /\ AtMostThreeRequests
        /\ \A a \in 1..Len(RequestEvents) :
              /\ UnauthorizedRefreshed(a)
              /\ RateLimitHandled(a)
              /\ ErrorRaised(a)
              /\ AnsweredEnds(a)

\* C12 amended: every call ends, returned or raised; it makes at most 3
\* requests; a 401 on attempt 1 or 2 is followed by a token refresh and, when
\* the refresh succeeds, by a retry with the new token; a 429 on attempt 1 or
\* 2 by a sleep of 2 * attempt seconds and a retry; any other status >= 400,
\* or a 401/429 on attempt 3, raises; the first response below 400 ends the
\* call with its decoded body.
C12_RequestTerminates ==
    /\ [](Len(RequestEvents) <= 3 /\ RequestHandlingAmended)
    /\ <>SchwabDone

\* A call that got 401, then 429, then an answer: two tokens, one sleep of 4
\* seconds, three requests, returned.
C12_Witness ==
    /\ rq_pc = "returned"
    /\ Len(RequestEvents) = 3
    /\ RequestEvents[1].resp.status = 401
    /\ RequestEvents[2].resp.status = 429
    /\ \E n \in 1..Len(rq_events) :
          rq_events[n].kind = "sleep" /\ rq_events[n].seconds = 4

-----------------------------------------------------------------------------
(* FMPStableClient data methods (wheel/clients/fmp_stable_client.py)       *)
(* Status 0 stands for requests.get raising a connection error or timeout. *)

StopAfterAttempt == 3

FmpMethods ==
    {"company_screener", "profile", "quote", "key_metrics_ttm", "ratios_ttm",
     "stock_news"}

FmpStatuses == {0, 200, 402, 404, 429, 500}

\* company_screener calls _get without check_blocked (line 276)
ChecksBlocked(method) == method # "company_screener"

EmptyValue(method) ==
    IF method \in {"company_screener", "stock_news"} THEN "[]" ELSE "{}"

GetResult(kind, value, requested, blocked) ==
    [kind |-> kind, value |-> value, requested |-> requested, blocked |-> blocked]

\* _get, lines 185-238
FmpGet(status, check_blocked, blocked) ==
    IF check_blocked /\ blocked THEN GetResult("returned", "None", FALSE, blocked)
    ELSE IF status = 0 THEN GetResult("raised", "ConnectionError", TRUE, blocked)
    ELSE IF status = 402 THEN GetResult("returned", "None", TRUE, blocked \/ check_blocked)
    ELSE IF status = 404 THEN GetResult("returned", "None", TRUE, blocked)
    ELSE IF status >= 400 THEN GetResult("raised", "HTTPError", TRUE, blocked)
    ELSE GetResult("returned", "data", TRUE, blocked)

\* the except clauses of a data method as written: both return the empty value
MethodCatches(method, got) ==
    GetResult("returned", EmptyValue(method), got.requested, got.blocked)

\* body of a data method, e.g. profile lines 304-322
MethodBody(method, got) ==
    IF got.kind = "raised" THEN MethodCatches(method, got)
    ELSE IF got.value = "None" THEN GetResult("returned", EmptyValue(method), got.requested, got.blocked)
    ELSE got

\* what one pass of the tenacity wrapper adds to the call so far
AfterPass(sofar, status, out) ==
    [kind |-> out.kind, value |-> out.value, blocked |-> out.blocked,
     requests |-> IF out.requested THEN Append(sofar.requests, status) ELSE sofar.requests,
     passes |-> sofar.passes + 1]

\* @retry(stop=stop_after_attempt(3), retry=retry_if_exception_type(HTTPError))
RetryWanted(st) ==
    st.kind = "raised" /\ st.value = "HTTPError" /\ st.passes < StopAfterAttempt

RetryGivesUp(st) ==
    IF st.kind = "raised" /\ st.value = "HTTPError"
    THEN [st EXCEPT !.value = "RetryError"] ELSE st

RECURSIVE Retrying(_, _, _)
Retrying(method, script, st) ==
    IF st.passes > 0 /\ ~RetryWanted(st) THEN RetryGivesUp(st)
    ELSE Retrying(method, script,
                  AfterPass(st, script[st.passes + 1],
                            MethodBody(method,
                                       FmpGet(script[st.passes + 1],
                                              ChecksBlocked(method), st.blocked))))

FmpCallResult(method, script, blocked) ==
    Retrying(method, script,
             [kind |-> "", value |-> "", blocked |-> blocked, requests |-> <<>>,
              passes |-> 0])

InitFmp ==
    /\ IdleCore /\ IdleUpsert /\ IdleSchwab /\ IdleCall /\ IdleEarn /\ IdleBudget
    /\ fmp_method \in FmpMethods
    /\ fmp_script \in [1..StopAfterAttempt -> FmpStatuses]
    /\ fmp_blocked \in BOOLEAN
    /\ fmp_res = None

CallFmpMethod ==
    /\ fmp_method # "" /\ fmp_res = None
    /\ fmp_res' = Some(FmpCallResult(fmp_method, fmp_script, fmp_blocked))
    /\ UNCHANGED <<fmp_method, fmp_script, fmp_blocked, spreadVars, chooseVars,
                   symVars, windowVars, mainVars, upsertVars, schwabVars, callVars, earnVars,
                   budgetVars>>

NextFmp == CallFmpMethod

SpecFmp == InitFmp /\ [][NextFmp]_vars

RetriedError(status) == status >= 400 /\ status \notin {402, 404}

\* C13: a data method that receives an HTTP error other than 402/404 on a
\* request before the third makes another request.
C13_ErrorRetried ==
    (~IsNone(fmp_res)) =>
        \A n \in 1..Len(Val(fmp_res).requests) :
            (n < StopAfterAttempt /\ RetriedError(Val(fmp_res).requests[n]))
            => Len(Val(fmp_res).requests) > n

\* what the methods do instead: one request at most, and a return
C13_SingleRequest ==
    (~IsNone(fmp_res)) =>
        /\ Len(Val(fmp_res).requests) <= 1
        /\ Val(fmp_res).kind = "returned"

-----------------------------------------------------------------------------
(* build_cc_picks: _choose_best_call_in_delta_band                          *)

CC_DELTA_MIN == 20
CC_DELTA_MAX == 30
MIN_BID == 5

MaxCalls == 2

\* _check_liquidity of build_cc_picks.py, lines 132-150: after the bid and ask
\* checks the call of spread_ok reads rules.max_abs_spread_low_premium, which
\* WheelRules does not define (and spread_ok takes (bid, ask, rules), not the
\* keywords passed), so the check raises; lines 151-169 are never reached
CallLiquidity(option) ==
    IF FloatOrZero(option.bid) < MIN_BID THEN "illiquid"
    ELSE IF FloatOrZero(option.ask) <= 0 THEN "illiquid"
    ELSE "raise"

\* one pass of the loop of lines 264-311, which ends at line 275 either way
EvalCall(o) ==
    IF IsNone(o.delta) THEN "skip"
    ELSE IF ~(CC_DELTA_MIN <= Val(o.delta) /\ Val(o.delta) <= CC_DELTA_MAX) THEN "skip"
    ELSE IF CallLiquidity(o) = "illiquid" THEN "skip"
    ELSE "raise"

\* lines 256-318: no pass appends to candidates, so the result is None unless
\* a pass raises
_choose_best_call_in_delta_band(options) ==
    IF options = <<>> THEN [kind |-> "none"]
    ELSE IF \E n \in 1..Len(options) : EvalCall(options[n]) = "raise"
    THEN [kind |-> "raise", error |-> "AttributeError"]
    ELSE [kind |-> "none"]

(* Specification SpecCall: one call of _choose_best_call_in_delta_band *)

CallGood == Opt(Some(25), Some(100), Some(104), Some(50), Some(5500), Some(102))

CallPool ==
    { CallGood,
      [CallGood EXCEPT !.strike = Some(5000), !.delta = Some(30)],
      [CallGood EXCEPT !.strike = Some(4500)],
      [CallGood EXCEPT !.delta = None],
      [CallGood EXCEPT !.delta = Some(19)],
      [CallGood EXCEPT !.delta = Some(-25)],
      [CallGood EXCEPT !.bid = Some(4), !.ask = Some(4)],
      [CallGood EXCEPT !.ask = None],
      [CallGood EXCEPT !.ask = Some(120)],
      [CallGood EXCEPT !.openInterest = Some(9)] }

InitCall ==
    /\ IdleCore /\ IdleUpsert /\ IdleSchwab /\ IdleFmp /\ IdleEarn /\ IdleBudget
    /\ cc_options \in SeqsUpTo(CallPool, MaxCalls)
    /\ cc_price = 5000
    /\ cc_dte \in ChooseDtes
    /\ cc_allow_itm \in BOOLEAN
    /\ cc_res = None

CallChooseBestCall ==
    /\ cc_dte # 0 /\ cc_res = None
    /\ cc_res' = Some(_choose_best_call_in_delta_band(cc_options))
    /\ UNCHANGED <<cc_options, cc_price, cc_dte, cc_allow_itm, spreadVars,
                   chooseVars, symVars, windowVars, mainVars, upsertVars,
                   schwabVars, fmpVars, earnVars, budgetVars>>

NextCall == CallChooseBestCall

SpecCall == InitCall /\ [][NextCall]_vars

\* the conditions the claim lists for a covered-call contract
CallQualifies(o) ==
    /\ ~IsNone(o.delta)
    /\ CC_DELTA_MIN <= Val(o.delta) /\ Val(o.delta) <= CC_DELTA_MAX
    /\ FloatOrZero(o.bid) >= MIN_BID
    /\ FloatOrZero(o.ask) > 0
    /\ spread_ok(FloatOrZero(o.bid), FloatOrZero(o.ask)).ok
    /\ FloatOrZero(o.openInterest) >= MIN_OPEN_INTEREST
    /\ ~IsNone(o.strike)
    /\ cc_allow_itm \/ Val(o.strike) >= cc_price

\* annualized yield, (premium / strike) * (365 / dte), of a qualifying contract
CallYield(o) ==
    RMul(RDiv(Val(PremiumOf(o)), RInt(Val(o.strike))), Rat(365, cc_dte))

\* C14: the call returns a contract that satisfies the listed conditions and
\* has the highest annualized yield among those that do, and it returns None
\* only when no contract satisfies them.
C14_BestCallReturned ==
    (~IsNone(cc_res)) =>
        /\ Val(cc_res).kind \in {"none", "contract"}
        /\ Val(cc_res).kind = "contract" =>
              /\ CallQualifies(Val(cc_res).c)
              /\ \A n \in 1..Len(cc_options) :
                    CallQualifies(cc_options[n])
                    => RLe(CallYield(cc_options[n]), CallYield(Val(cc_res).c))
        /\ Val(cc_res).kind = "none" =>
              \A n \in 1..Len(cc_options) : ~CallQualifies(cc_options[n])

\* what the call does instead: it never returns a contract, and it raises
\* whenever a contract in the delta band has an acceptable bid and an ask
C14_NeverReturnsContract ==
    (~IsNone(cc_res)) =>
        /\ Val(cc_res).kind \in {"none", "raise"}
        /\ (\E n \in 1..Len(cc_options) : CallQualifies(cc_options[n]))
              => Val(cc_res).kind = "raise"

-----------------------------------------------------------------------------
(* Earnings exclusion end to end: calculate_earnings_in_days                *)
(* (weekly_screener.py), the builders' test, and earnings_ok               *)
(* (config/wheel_rules.py)                                                 *)

MaxEarningsOffset == 40

\* weekly_screener.py, lines 349-370
calculate_earnings_in_days(earnings_date, now) ==
    IF IsNone(earnings_date) THEN None
    ELSE IF Val(earnings_date) > now THEN Some(Val(earnings_date) - now)
    ELSE None

\* wheel_rules.py, lines 260-307
earnings_ok(earnings_date, now, avoid_days) ==
    IF IsNone(earnings_date) THEN TRUE
    ELSE IF Val(earnings_date) < now THEN TRUE
    ELSE Val(earnings_date) - now > avoid_days

(* Specification SpecEarn: one ticker's earnings date through both paths *)

InitEarn ==
    /\ IdleCore /\ IdleUpsert /\ IdleSchwab /\ IdleFmp /\ IdleCall /\ IdleBudget
    /\ ea_now \in {100, 101}
    /\ ea_date \in {None} \cup {Some(d) : d \in 100 - MaxEarningsOffset..100 + MaxEarningsOffset}
    /\ ea_res = None

CheckEarnings ==
    /\ ea_now # 0 /\ ea_res = None
    /\ ea_res' = Some([blocked |-> EarningsBlocked(calculate_earnings_in_days(ea_date, ea_now)),
                       ok |-> earnings_ok(ea_date, ea_now, EARNINGS_AVOID_DAYS)])
    /\ UNCHANGED <<ea_now, ea_date, spreadVars, chooseVars, symVars, windowVars,
                   mainVars, upsertVars, schwabVars, fmpVars, callVars, budgetVars>>

NextEarn == CheckEarnings

SpecEarn == InitEarn /\ [][NextEarn]_vars

WithinAvoidDays ==
    /\ ~IsNone(ea_date)
    /\ 0 <= Val(ea_date) - ea_now
    /\ Val(ea_date) - ea_now <= EARNINGS_AVOID_DAYS

\* C15: a ticker is blocked by the builders exactly when earnings_ok is
\* False, i.e. exactly when its earnings date is 0 to avoid_days days ahead.
C15_ExclusionAgrees ==
    (~IsNone(ea_res)) =>
        /\ Val(ea_res).blocked <=> ~Val(ea_res).ok
        /\ Val(ea_res).blocked <=> WithinAvoidDays

\* the two paths agree on every date but the run date, where earnings_ok is
\* False and the builders do not block
C15_AgreesExceptRunDate ==
    (~IsNone(ea_res)) =>
        /\ ~Val(ea_res).ok <=> WithinAvoidDays
        /\ IF ea_date = Some(ea_now)
           THEN ~Val(ea_res).blocked /\ ~Val(ea_res).ok
           ELSE Val(ea_res).blocked <=> ~Val(ea_res).ok

-----------------------------------------------------------------------------
(* build_csp_picks: _determine_portfolio_budget and                        *)
(* _fetch_portfolio_budget_from_schwab                                     *)
(* WHEEL_CSP_PORTFOLIO_CASH is unset (or blank), a number, or text that    *)
(* float() rejects.  A balance bucket of the account is None (absent or    *)
(* not a dict) or Some(dict), a dict giving each cash field None (absent   *)
(* or null) or Some(cents).  A source is a tuple: <<"env">>,               *)
(* <<"schwab", bucket, field>> or <<"fallback", reason>>.                  *)

DEFAULT_PORTFOLIO_CASH == 5000000

BalanceBuckets == <<"currentBalances", "projectedBalances", "initialBalances">>

CashFieldNames ==
    <<"cashAvailableForTrading", "availableFundsForTrading", "availableFunds",
      "cashBalance", "totalCash", "optionBuyingPower", "buyingPower">>

FieldSet == {CashFieldNames[n] : n \in 1..Len(CashFieldNames)}

BudgetResult(cash, source) == [kind |-> "return", cash |-> cash, source |-> source]
FallbackBudget(reason) == BudgetResult(DEFAULT_PORTFOLIO_CASH, <<"fallback", reason>>)

\* SchwabClient.get_account(self, account_id, fields="positions"): a call
\* that does not pass account_id raises TypeError before any request
get_account(given, response) ==
    IF "account_id" \notin given THEN [kind |-> "raise", error |-> "TypeError"]
    ELSE [kind |-> "return", value |-> response]

RECURSIVE FirstCashField(_, _)
\* the first field name, from the n-th on, whose _safe_float is positive
FirstCashField(balance_dict, n) ==
    IF n > Len(CashFieldNames) THEN None
    ELSE IF /\ ~IsNone(balance_dict[CashFieldNames[n]])
            /\ Val(balance_dict[CashFieldNames[n]]) > 0
    THEN Some(n)
    ELSE FirstCashField(balance_dict, n + 1)

BucketResult(b, balance_dict, n) ==
    BudgetResult(Val(balance_dict[CashFieldNames[n]]),
                 <<"schwab", BalanceBuckets[b], CashFieldNames[n]>>)

RECURSIVE ScanBuckets(_, _)
\* lines 626-637, from the b-th bucket on
ScanBuckets(account, b) ==
    IF b > Len(BalanceBuckets) THEN FallbackBudget("no_cash_fields")
    ELSE IF IsNone(account[BalanceBuckets[b]]) THEN ScanBuckets(account, b + 1)
    ELSE IF IsNone(FirstCashField(Val(account[BalanceBuckets[b]]), 1))
    THEN ScanBuckets(account, b + 1)
    ELSE BucketResult(b, Val(account[BalanceBuckets[b]]),
                      Val(FirstCashField(Val(account[BalanceBuckets[b]]), 1)))

\* lines 591-637 on what get_account answered
BudgetFromAnswer(answer) ==
    IF answer.kind = "raise" THEN FallbackBudget("exception")
    ELSE IF answer.value.kind = "notdict" THEN FallbackBudget("invalid_response")
    ELSE ScanBuckets(answer.value.account, 1)

\* "response = schwab.get_account()" passes no argument
_fetch_portfolio_budget_from_schwab(client_ok, response) ==
    IF ~client_ok THEN FallbackBudget("exception")
    ELSE BudgetFromAnswer(get_account({}, response))

_determine_portfolio_budget(env_cash, client_ok, response) ==
    IF env_cash.kind = "number" /\ env_cash.value > 0
    THEN BudgetResult(env_cash.value, <<"env">>)
    ELSE _fetch_portfolio_budget_from_schwab(client_ok, response)

EnvValues ==
    { [kind |-> "unset", value |-> 0],
      [kind |-> "invalid", value |-> 0],
      [kind |-> "number", value |-> 0],
      [kind |-> "number", value |-> -100],
      [kind |-> "number", value |-> 7500000] }

BalanceDict(cash_balance, buying_power) ==
    [f \in FieldSet |-> IF f = "cashBalance" THEN cash_balance
                        ELSE IF f = "buyingPower" THEN buying_power
                        ELSE None]

BucketValues ==
    {None} \cup {Some(BalanceDict(v, w)) : v \in {None, Some(0), Some(1200000)},
                                           w \in {None, Some(3400000)}}

Accounts ==
    [{BalanceBuckets[b] : b \in 1..Len(BalanceBuckets)} -> BucketValues]

\* the JSON of GET /accounts/{id}: the account under "securitiesAccount",
\* under "account" or at top level, or no dict at all
Responses ==
    {[kind |-> "notdict", account |-> None]} \cup
    {[kind |-> k, account |-> a] : k \in {"securitiesAccount", "account", "raw"},
                                   a \in Accounts}

-----------------------------------------------------------------------------
(* Specification SpecBudget: one call of _determine_portfolio_budget *)

InitBudget ==
    /\ IdleCore /\ IdleUpsert /\ IdleSchwab /\ IdleFmp /\ IdleCall /\ IdleEarn
    /\ bg_env \in {Some(v) : v \in EnvValues}
    /\ bg_client_ok \in BOOLEAN
    /\ bg_response \in {Some(r) : r \in Responses}
    /\ bg_res = None

DetermineBudget ==
    /\ bg_env # None /\ bg_res = None
    /\ bg_res' = Some(_determine_portfolio_budget(Val(bg_env), bg_client_ok,
                                                  Val(bg_response)))
    /\ UNCHANGED <<bg_env, bg_client_ok, bg_response, spreadVars, chooseVars,
                   symVars, windowVars, mainVars, upsertVars, schwabVars,
                   fmpVars, callVars, earnVars>>

NextBudget == DetermineBudget

SpecBudget == InitBudget /\ [][NextBudget]_vars

EnvPositive == Val(bg_env).kind = "number" /\ Val(bg_env).value > 0

\* the (bucket, field) positions of the account that hold a positive amount
PositiveFields ==
    IF Val(bg_response).kind = "notdict" THEN {}
    ELSE {bf \in (1..Len(BalanceBuckets)) \X (1..Len(CashFieldNames)) :
            /\ ~IsNone(Val(bg_response).account[BalanceBuckets[bf[1]]])
            /\ ~IsNone(Val(Val(bg_response).account[BalanceBuckets[bf[1]]])[CashFieldNames[bf[2]]])
            /\ Val(Val(Val(bg_response).account[BalanceBuckets[bf[1]]])[CashFieldNames[bf[2]]]) > 0}

Earlier(bf, other) == bf[1] < other[1] \/ (bf[1] = other[1] /\ bf[2] <= other[2])

FirstPositive == CHOOSE bf \in PositiveFields : \A other \in PositiveFields : Earlier(bf, other)

FirstPositiveAmount ==
    Val(Val(Val(bg_response).account[BalanceBuckets[FirstPositive[1]]])[CashFieldNames[FirstPositive[2]]])

ReturnsPositive == Val(bg_res).kind = "return" /\ Val(bg_res).cash > 0

\* C19: the call returns a positive amount and never raises: the env value
\* with source env when it is a positive number; otherwise, with Schwab
\* credentials and an account holding a positive cash field, the first such
\* field in bucket then field order with source schwab:<bucket>.<field>;
\* otherwise 50000 with a fallback source.
C19_BudgetPriority ==
    bg_res # None =>
        /\ ReturnsPositive
        /\ IF EnvPositive
           THEN Val(bg_res).cash = Val(bg_env).value /\ Val(bg_res).source = <<"env">>
           ELSE IF bg_client_ok /\ PositiveFields # {}
           THEN /\ Val(bg_res).cash = FirstPositiveAmount
                /\ Val(bg_res).source = <<"schwab", BalanceBuckets[FirstPositive[1]],
                                          CashFieldNames[FirstPositive[2]]>>
           ELSE /\ Val(bg_res).cash = DEFAULT_PORTFOLIO_CASH
                /\ Val(bg_res).source[1] = "fallback"

\* what the call does return: the env value when it is a positive number,
\* otherwise the default with source fallback:exception, whatever the
\* account holds
C19_EnvOrFallback ==
    bg_res # None =>
        /\ ReturnsPositive
        /\ IF EnvPositive
           THEN Val(bg_res) = BudgetResult(Val(bg_env).value, <<"env">>)
           ELSE Val(bg_res) = FallbackBudget("exception")

====
